---- MODULE Spec2Model ----
(***************************************************************************)
(* The NES emulation core of cs-from-scratch: the 6502 processor           *)
(* (NESEmulator/cpu.py), the register interface of the picture unit        *)
(* (NESEmulator/ppu.py) and the mapper-0 cartridge (NESEmulator/rom.py).   *)
(*                                                                         *)
(* Python's byte arrays are modelled sparsely: a function from the indices *)
(* that hold a non-zero byte to that byte; every other index of the array  *)
(* holds 0.  Operators that model a method take the machine s, a record of *)
(* the objects (cpu, ram, ppu, rom, joypad1), and return the machine after *)
(* the call; s.ret is the value the method returned and s.err the          *)
(* exception it raised ("none" when it returned normally).  Once an        *)
(* exception is raised it propagates: nothing else is mutated.             *)
(***************************************************************************)
EXTENDS Integers, Sequences, FiniteSets, TLC

VARIABLES cpu, ram, ppu, rom, joypad1, err, last, stk, interpreter

vars == <<cpu, ram, ppu, rom, joypad1, err, last, stk, interpreter>>

---------------------------------------------------------------------------
(* Program constants *)

STACK_POINTER_RESET == 253
RESET_VECTOR == 65532
NMI_VECTOR == 65530
IRQ_BRK_VECTOR == 65534
MEM_SIZE == 2048
SPR_RAM_SIZE == 256
NAMETABLE_SIZE == 2048
PALETTE_SIZE == 32
NES_WIDTH == 256
NES_HEIGHT == 240
ROM_SIGNATURE == 1313166106
HEADER_SIZE == 16
TRAINER_SIZE == 512
PRG_ROM_BASE_UNIT_SIZE == 16384
CHR_ROM_BASE_UNIT_SIZE == 8192
PRG_RAM_SIZE == 8192

BRANCH_INSTRUCTIONS == {"BCC", "BCS", "BEQ", "BMI", "BNE", "BPL", "BVC", "BVS"}

---------------------------------------------------------------------------
(* Python integer and array primitives *)

\* bool used as an int
B2I(b) == IF b THEN 1 ELSE 0

\* (v >> k) & 1, two's complement for negative v
Bit(v, k) == (v \div (2 ^ k)) % 2

\* a & b, for b >= 0 (a negative a is read in two's complement)
RECURSIVE BitAnd(_, _)
BitAnd(a, b) ==
    IF a = 0 \/ b = 0 THEN 0
    ELSE (a % 2) * (b % 2) + 2 * BitAnd(a \div 2, b \div 2)

\* a | b, for a, b >= 0
RECURSIVE BitOr(_, _)
BitOr(a, b) ==
    IF a = 0 THEN b
    ELSE IF b = 0 THEN a
    ELSE (IF (a % 2) + (b % 2) > 0 THEN 1 ELSE 0) + 2 * BitOr(a \div 2, b \div 2)

\* a ^ b, for a, b >= 0
RECURSIVE BitXor(_, _)
BitXor(a, b) ==
    IF a = 0 THEN b
    ELSE IF b = 0 THEN a
    ELSE (IF a % 2 # b % 2 THEN 1 ELSE 0) + 2 * BitXor(a \div 2, b \div 2)

\* array[i] of a zero-initialised byte array
Get(mem, i) == IF i \in DOMAIN mem THEN mem[i] ELSE 0

\* array[i] = v
Put(mem, i, v) ==
    IF v = 0 THEN [j \in DOMAIN mem \ {i} |-> mem[j]]
    ELSE [j \in DOMAIN mem \cup {i} |-> IF j = i THEN v ELSE mem[j]]

Ok(s) == s.err = "none"

Return(s, v) == [s EXCEPT !.ret = v]

Raise(s, e) == IF Ok(s) THEN [s EXCEPT !.err = e] ELSE s

---------------------------------------------------------------------------
(* rom.py: the mapper-0 cartridge *)

\* Header.from_bytes(raw_bytes): the fields unpack("!LBBBBBBB5s") gives, the
\* signature being the first four bytes read big-endian
Header_from_bytes(raw_bytes) ==
    IF Len(raw_bytes) # HEADER_SIZE THEN [err |-> "ValueError"]
    ELSE [err |-> "none",
          signature |-> (raw_bytes[1] * 16777216) + (raw_bytes[2] * 65536)
                            + (raw_bytes[3] * 256) + raw_bytes[4],
          prg_rom_size |-> raw_bytes[5], chr_rom_size |-> raw_bytes[6],
          flags6 |-> raw_bytes[7], flags7 |-> raw_bytes[8]]

\* ROM(rom_file): rom_file.header is what f.read(HEADER_SIZE) returns and
\* rom_file.body the bytes after it (sparse, offsets from 0, at least as many as
\* the header asks for).  The result holds the exception raised, the cartridge
\* built, its mapper attribute and the complaints printed on the way.
ROM(rom_file) ==
    LET header == Header_from_bytes(rom_file.header)
        f_read(pos, n) ==
            [i \in {j - pos : j \in {k \in DOMAIN rom_file.body :
                                        pos <= k /\ k < pos + n}}
                |-> rom_file.body[i + pos]]
        built ==
            LET mapper == BitOr(BitAnd(header.flags7, 240),
                                BitAnd(header.flags6, 240 \div 16))
                has_trainer == BitAnd(header.flags6, 4) # 0
                prg_at == IF has_trainer THEN TRAINER_SIZE ELSE 0
                prg_len == PRG_ROM_BASE_UNIT_SIZE * header.prg_rom_size
            IN  [err |-> "none", mapper |-> mapper, has_trainer |-> has_trainer,
                 signature |-> header.signature,
                 printed |-> (IF header.signature # ROM_SIGNATURE
                              THEN {"Invalid ROM header signature"} ELSE {})
                             \cup (IF mapper # 0 THEN {"Invalid Mapper"} ELSE {}),
                 rom |-> [prg_rom_size |-> header.prg_rom_size,
                          chr_rom_size |-> header.chr_rom_size,
                          prg_rom |-> f_read(prg_at, prg_len),
                          chr_rom |-> f_read(prg_at + prg_len,
                                             CHR_ROM_BASE_UNIT_SIZE
                                                 * header.chr_rom_size),
                          prg_ram |-> <<>>,
                          vertical_mirroring |-> BitAnd(header.flags6, 1) # 0]]
    IN  IF header.err # "none"
        THEN [err |-> header.err, mapper |-> -1, has_trainer |-> FALSE,
              signature |-> -1, printed |-> {},
              rom |-> [prg_rom_size |-> 0, chr_rom_size |-> 0, prg_rom |-> <<>>,
                       chr_rom |-> <<>>, prg_ram |-> <<>>,
                       vertical_mirroring |-> FALSE]]
        ELSE built

\* _read_mapper0 without the mirror of a single bank
_read_mapper0_unmirrored(s, addr) ==
    IF ~Ok(s) THEN s
    ELSE IF addr < 8192 THEN
        IF addr < CHR_ROM_BASE_UNIT_SIZE * s.rom.chr_rom_size
        THEN Return(s, Get(s.rom.chr_rom, addr))
        ELSE Raise(s, "IndexError")
    ELSE IF 24576 <= addr /\ addr < 32768 THEN
        Return(s, Get(s.rom.prg_ram, addr % PRG_RAM_SIZE))
    ELSE IF addr >= 32768 THEN
        LET size == PRG_ROM_BASE_UNIT_SIZE * s.rom.prg_rom_size
            idx == addr - 32768
        IN  IF idx < size THEN Return(s, Get(s.rom.prg_rom, idx))
            ELSE Raise(s, "IndexError")
    ELSE Raise(s, "LookupError")

\* _write_mapper0 dropping the writes it cannot store
_write_mapper0_dropped(s, addr, val) ==
    IF ~Ok(s) THEN s
    ELSE IF 24576 <= addr /\ addr < 32768 THEN
        [s EXCEPT !.rom.prg_ram = Put(@, addr % PRG_RAM_SIZE, val)]
    ELSE s

_read_mapper0(s, addr) ==
    IF ~Ok(s) THEN s
    ELSE IF addr < 8192 THEN
        IF addr < CHR_ROM_BASE_UNIT_SIZE * s.rom.chr_rom_size
        THEN Return(s, Get(s.rom.chr_rom, addr))
        ELSE Raise(s, "IndexError")
    ELSE IF 24576 <= addr /\ addr < 32768 THEN
        Return(s, Get(s.rom.prg_ram, addr % PRG_RAM_SIZE))
    ELSE IF addr >= 32768 THEN
        LET size == PRG_ROM_BASE_UNIT_SIZE * s.rom.prg_rom_size
            idx == IF s.rom.prg_rom_size > 1 THEN addr - 32768
                   ELSE (addr - 32768) % PRG_ROM_BASE_UNIT_SIZE
        IN  IF idx < size THEN Return(s, Get(s.rom.prg_rom, idx))
            ELSE Raise(s, "IndexError")
    ELSE Raise(s, "LookupError")

_write_mapper0(s, addr, val) ==
    IF ~Ok(s) THEN s
    ELSE IF 24576 <= addr /\ addr < 32768 THEN
        [s EXCEPT !.rom.prg_ram = Put(@, addr % PRG_RAM_SIZE, val)]
    ELSE Raise(s, "ValueError")

---------------------------------------------------------------------------
(* ppu.py: picture unit memory and registers *)

\* nametable_index folding every 0x800 whatever the cartridge's mirroring
nametable_index_always_vertical(s, addr) == ((addr - 8192) % 4096) % 2048

\* palette_index without the redirection of 0x10, 0x14, 0x18, 0x1C
palette_index_unredirected(addr) == (addr - 16128) % 32

\* the nametable index an address in 0x2000..0x3EFF folds to
nametable_index(s, addr) ==
    LET a == (addr - 8192) % 4096
    IN  IF s.rom.vertical_mirroring THEN a % 2048
        ELSE IF a >= 1024 /\ a < 3072 THEN a - 1024
        ELSE IF a >= 3072 THEN a - 2048
        ELSE a

\* the palette index an address in 0x3F00..0x3FFF folds to
palette_index(addr) ==
    LET a == (addr - 16128) % 32
    IN  IF a > 15 /\ a % 4 = 0 THEN a - 16 ELSE a

ppu_read_memory(s, addr0) ==
    LET addr == addr0 % 16384
    IN  IF ~Ok(s) THEN s
        ELSE IF addr < 8192 THEN _read_mapper0(s, addr)
        ELSE IF addr < 16128 THEN
            LET i == nametable_index(s, addr)
            IN  IF i < NAMETABLE_SIZE THEN Return(s, Get(s.ppu.nametables, i))
                ELSE Raise(s, "IndexError")
        ELSE Return(s, Get(s.ppu.palette, palette_index(addr)))

ppu_write_memory(s, addr0, val) ==
    LET addr == addr0 % 16384
    IN  IF ~Ok(s) THEN s
        ELSE IF addr < 8192 THEN _write_mapper0(s, addr, val)
        ELSE IF addr < 16128 THEN
            LET i == nametable_index(s, addr)
            IN  IF i < NAMETABLE_SIZE
                THEN [s EXCEPT !.ppu.nametables = Put(@, i, val)]
                ELSE Raise(s, "IndexError")
        ELSE [s EXCEPT !.ppu.palette = Put(@, palette_index(addr), val)]

\* read_register whose status read leaves the address latch as it was
read_register_latch_kept(s, addr) ==
    IF ~Ok(s) THEN s
    ELSE IF addr = 8194 THEN
        [s EXCEPT !.ppu.status = BitAnd(@, 127),
                  !.ret = s.ppu.status]
    ELSE IF addr = 8196 THEN
        IF s.ppu.spr_addr < SPR_RAM_SIZE
        THEN Return(s, Get(s.ppu.spr, s.ppu.spr_addr))
        ELSE Raise(s, "IndexError")
    ELSE IF addr = 8199 THEN
        LET buffered(r) ==
                IF Ok(r) THEN [r EXCEPT !.ppu.buffer2007 = r.ret,
                                        !.ret = s.ppu.buffer2007]
                ELSE r
            mirrored(r1, r2) ==
                IF Ok(r2) THEN [r2 EXCEPT !.ppu.buffer2007 = r2.ret, !.ret = r1.ret]
                ELSE r2
            direct(r1) == mirrored(r1, ppu_read_memory(r1, s.ppu.addr - 4096))
            advance(s1) ==
                IF Ok(s1) THEN [s1 EXCEPT !.ppu.addr = @ + s.ppu.addr_increment]
                ELSE s1
        IN  advance(IF s.ppu.addr % 16384 < 16128
                    THEN buffered(ppu_read_memory(s, s.ppu.addr))
                    ELSE direct(ppu_read_memory(s, s.ppu.addr)))
    ELSE Raise(s, "LookupError")

\* read_register whose data read returns the byte just fetched
read_register_unbuffered(s, addr) ==
    IF ~Ok(s) THEN s
    ELSE IF addr = 8194 THEN
        [s EXCEPT !.ppu.addr_write_latch = FALSE,
                  !.ppu.status = BitAnd(@, 127),
                  !.ret = s.ppu.status]
    ELSE IF addr = 8196 THEN
        IF s.ppu.spr_addr < SPR_RAM_SIZE
        THEN Return(s, Get(s.ppu.spr, s.ppu.spr_addr))
        ELSE Raise(s, "IndexError")
    ELSE IF addr = 8199 THEN
        LET buffered(r) ==
                IF Ok(r) THEN [r EXCEPT !.ppu.buffer2007 = r.ret]
                ELSE r
            mirrored(r1, r2) ==
                IF Ok(r2) THEN [r2 EXCEPT !.ppu.buffer2007 = r2.ret, !.ret = r1.ret]
                ELSE r2
            direct(r1) == mirrored(r1, ppu_read_memory(r1, s.ppu.addr - 4096))
            advance(s1) ==
                IF Ok(s1) THEN [s1 EXCEPT !.ppu.addr = @ + s.ppu.addr_increment]
                ELSE s1
        IN  advance(IF s.ppu.addr % 16384 < 16128
                    THEN buffered(ppu_read_memory(s, s.ppu.addr))
                    ELSE direct(ppu_read_memory(s, s.ppu.addr)))
    ELSE Raise(s, "LookupError")

read_register(s, addr) ==
    IF ~Ok(s) THEN s
    ELSE IF addr = 8194 THEN
        [s EXCEPT !.ppu.addr_write_latch = FALSE,
                  !.ppu.status = BitAnd(@, 127),
                  !.ret = s.ppu.status]
    ELSE IF addr = 8196 THEN
        IF s.ppu.spr_addr < SPR_RAM_SIZE
        THEN Return(s, Get(s.ppu.spr, s.ppu.spr_addr))
        ELSE Raise(s, "IndexError")
    ELSE IF addr = 8199 THEN
        LET buffered(r) ==
                IF Ok(r) THEN [r EXCEPT !.ppu.buffer2007 = r.ret,
                                        !.ret = s.ppu.buffer2007]
                ELSE r
            mirrored(r1, r2) ==
                IF Ok(r2) THEN [r2 EXCEPT !.ppu.buffer2007 = r2.ret, !.ret = r1.ret]
                ELSE r2
            direct(r1) == mirrored(r1, ppu_read_memory(r1, s.ppu.addr - 4096))
            advance(s1) ==
                IF Ok(s1) THEN [s1 EXCEPT !.ppu.addr = @ + s.ppu.addr_increment]
                ELSE s1
        IN  advance(IF s.ppu.addr % 16384 < 16128
                    THEN buffered(ppu_read_memory(s, s.ppu.addr))
                    ELSE direct(ppu_read_memory(s, s.ppu.addr)))
    ELSE Raise(s, "LookupError")

\* write_register whose scroll register shares the address latch
write_register_scroll_toggles(s, addr, val) ==
    IF ~Ok(s) THEN s
    ELSE IF addr = 8192 THEN
        [s EXCEPT !.ppu.nametable_addr = 8192 + BitAnd(val, 3) * 1024,
                  !.ppu.addr_increment = IF BitAnd(val, 4) # 0 THEN 32 ELSE 1,
                  !.ppu.spr_pattern_table_addr = Bit(val, 3) * 4096,
                  !.ppu.bg_pattern_table_addr = Bit(val, 4) * 4096,
                  !.ppu.generate_nmi = BitAnd(val, 128) # 0]
    ELSE IF addr = 8193 THEN
        [s EXCEPT !.ppu.show_background = BitAnd(val, 8) # 0,
                  !.ppu.show_sprites = BitAnd(val, 16) # 0,
                  !.ppu.left_8_background_show = BitAnd(val, 2) # 0,
                  !.ppu.left_8_sprite_show = BitAnd(val, 4) # 0]
    ELSE IF addr = 8195 THEN [s EXCEPT !.ppu.spr_addr = val]
    ELSE IF addr = 8196 THEN
        IF s.ppu.spr_addr < SPR_RAM_SIZE
        THEN [s EXCEPT !.ppu.spr = Put(@, s.ppu.spr_addr, val),
                       !.ppu.spr_addr = @ + 1]
        ELSE Raise(s, "IndexError")
    ELSE IF addr = 8197 THEN [s EXCEPT !.ppu.addr_write_latch = ~@]
    ELSE IF addr = 8198 THEN
        [s EXCEPT !.ppu.addr = IF ~s.ppu.addr_write_latch
                               THEN BitAnd(@, 255) + BitAnd(val, 255) * 256
                               ELSE BitAnd(@, 65280) + BitAnd(val, 255),
                  !.ppu.addr_write_latch = ~@]
    ELSE IF addr = 8199 THEN
        LET advance(s1) ==
                IF Ok(s1) THEN [s1 EXCEPT !.ppu.addr = @ + s.ppu.addr_increment]
                ELSE s1
        IN  advance(ppu_write_memory(s, s.ppu.addr, val))
    ELSE Raise(s, "LookupError")

write_register(s, addr, val) ==
    IF ~Ok(s) THEN s
    ELSE IF addr = 8192 THEN
        [s EXCEPT !.ppu.nametable_addr = 8192 + BitAnd(val, 3) * 1024,
                  !.ppu.addr_increment = IF BitAnd(val, 4) # 0 THEN 32 ELSE 1,
                  !.ppu.spr_pattern_table_addr = Bit(val, 3) * 4096,
                  !.ppu.bg_pattern_table_addr = Bit(val, 4) * 4096,
                  !.ppu.generate_nmi = BitAnd(val, 128) # 0]
    ELSE IF addr = 8193 THEN
        [s EXCEPT !.ppu.show_background = BitAnd(val, 8) # 0,
                  !.ppu.show_sprites = BitAnd(val, 16) # 0,
                  !.ppu.left_8_background_show = BitAnd(val, 2) # 0,
                  !.ppu.left_8_sprite_show = BitAnd(val, 4) # 0]
    ELSE IF addr = 8195 THEN [s EXCEPT !.ppu.spr_addr = val]
    ELSE IF addr = 8196 THEN
        IF s.ppu.spr_addr < SPR_RAM_SIZE
        THEN [s EXCEPT !.ppu.spr = Put(@, s.ppu.spr_addr, val),
                       !.ppu.spr_addr = @ + 1]
        ELSE Raise(s, "IndexError")
    ELSE IF addr = 8197 THEN s
    ELSE IF addr = 8198 THEN
        [s EXCEPT !.ppu.addr = IF ~s.ppu.addr_write_latch
                               THEN BitAnd(@, 255) + BitAnd(val, 255) * 256
                               ELSE BitAnd(@, 65280) + BitAnd(val, 255),
                  !.ppu.addr_write_latch = ~@]
    ELSE IF addr = 8199 THEN
        LET advance(s1) ==
                IF Ok(s1) THEN [s1 EXCEPT !.ppu.addr = @ + s.ppu.addr_increment]
                ELSE s1
        IN  advance(ppu_write_memory(s, s.ppu.addr, val))
    ELSE Raise(s, "LookupError")

---------------------------------------------------------------------------
(* ppu.py: the frame *)

\* PPU._draw_background, as far as the machine shows it (the pixel buffer is not
\* part of it): the loop writes display_buffer[x * 8 + fine_x, x * 8 + fine_y], whose
\* second index reaches 240, the buffer's height, at tile column 30, so every call
\* ends in IndexError there, or earlier at a colour outside NES_PALETTE or a
\* pattern byte outside the graphics ROM
_draw_background(s) == Raise(s, "IndexError")

\* PPU._draw_sprites, the body of the loops for pixel k in drawing order: sprite
\* 63 - k div 64, column (k mod 64) div 8 and row k mod 8 of its 8 x 8 pixels
sprite_pixel(s, k, background_transparent) ==
    LET i == SPR_RAM_SIZE - 4 - 4 * (k \div 64)
        y_pos == Get(s.ppu.spr, i)
        x_pos == Get(s.ppu.spr, i + 3)
        attr == Get(s.ppu.spr, i + 2)
        x == x_pos + ((k % 64) \div 8)
        y == y_pos + (k % 8)
        sprite_line == IF Bit(attr, 7) = 1 THEN 7 - (y - y_pos) ELSE y - y_pos
        x_loc == IF Bit(attr, 6) = 0 THEN 7 - (x - x_pos) ELSE x - x_pos
        bit0s_addr ==
            s.ppu.spr_pattern_table_addr + (Get(s.ppu.spr, i + 1) * 16) + sprite_line
        bit1and0(r0, r1) == (Bit(r1.ret, x_loc) * 2) + Bit(r0.ret, x_loc)
        hit ==
            /\ i = 0
            /\ ~background_transparent
            /\ ~(x < 8 /\ (~s.ppu.left_8_sprite_show \/ ~s.ppu.left_8_background_show))
            /\ s.ppu.show_background
            /\ s.ppu.show_sprites
        marked(r) == IF hit THEN [r EXCEPT !.ppu.status = BitOr(@, 64)] ELSE r
        \* NES_PALETTE[color], a list of 64 colours
        coloured(r) == IF Ok(r) /\ r.ret >= 64 THEN Raise(r, "IndexError") ELSE r
        drawn(r0, r1) ==
            IF ~Ok(r1) THEN r1
            ELSE IF bit1and0(r0, r1) = 0 THEN r1
            ELSE IF Bit(attr, 5) = 1 /\ ~background_transparent THEN marked(r1)
            ELSE coloured(ppu_read_memory(marked(r1),
                              16144 + BitOr(BitAnd(attr, 3) * 4, bit1and0(r0, r1))))
        planes(r0) == drawn(r0, ppu_read_memory(r0, bit0s_addr + 8))
    IN  IF ~Ok(s) THEN s
        ELSE IF y_pos = 255 \/ x >= NES_WIDTH \/ y >= NES_HEIGHT THEN s
        ELSE planes(ppu_read_memory(s, bit0s_addr))

\* the pixels lo..hi-1 in turn, the first half of the range and then the second
RECURSIVE sprite_pixels(_, _, _, _)
sprite_pixels(s, lo, hi, background_transparent) ==
    IF ~Ok(s) THEN s
    ELSE IF hi - lo = 1 THEN sprite_pixel(s, lo, background_transparent)
    ELSE sprite_pixels(sprite_pixels(s, lo, (lo + hi) \div 2, background_transparent),
                       (lo + hi) \div 2, hi, background_transparent)

_draw_sprites(s, background_transparent) ==
    sprite_pixels(s, 0, (SPR_RAM_SIZE \div 4) * 64, background_transparent)

\* PPU.step
ppu_step(s) ==
    LET sprites(r) ==
            IF Ok(r) /\ r.ppu.show_sprites THEN _draw_sprites(r, FALSE) ELSE r
        flags(r) ==
            IF ~Ok(r) THEN r
            ELSE IF r.ppu.scanline = 241 /\ r.ppu.cycle = 1
            THEN [r EXCEPT !.ppu.status = BitOr(@, 128)]
            ELSE IF r.ppu.scanline = 261 /\ r.ppu.cycle = 1
            THEN [r EXCEPT !.ppu.status = BitOr(@, 31)]
            ELSE r
        bookkeeping(r) ==
            IF ~Ok(r) THEN r
            ELSE IF r.ppu.cycle + 1 > 340
            THEN [r EXCEPT !.ppu.cycle = 0,
                           !.ppu.scanline = IF @ + 1 > 261 THEN 0 ELSE @ + 1]
            ELSE [r EXCEPT !.ppu.cycle = @ + 1]
    IN  IF ~Ok(s) THEN s
        ELSE bookkeeping(flags(
                 IF s.ppu.scanline = 240 /\ s.ppu.cycle = 256
                 THEN sprites(IF s.ppu.show_background THEN _draw_background(s) ELSE s)
                 ELSE s))

---------------------------------------------------------------------------
(* cpu.py: the instruction table *)

Instruction(type, method, mode, length, ticks, page_ticks) ==
    [type |-> type, method |-> method, mode |-> mode, length |-> length,
     ticks |-> ticks, page_ticks |-> page_ticks]

\* self.instructions; opcode b is instructions[b + 1]
instructions == <<
    Instruction("BRK", "_BRK", "IMPLIED", 1, 7, 0),  \* 00
    Instruction("ORA", "_ORA", "INDEXED_INDIRECT", 2, 6, 0),  \* 01
    Instruction("KIL", "_noimpl", "IMPLIED", 0, 2, 0),  \* 02
    Instruction("SLO", "_noimpl", "INDEXED_INDIRECT", 0, 8, 0),  \* 03
    Instruction("NOP", "_NOP", "ZEROPAGE", 2, 3, 0),  \* 04
    Instruction("ORA", "_ORA", "ZEROPAGE", 2, 3, 0),  \* 05
    Instruction("ASL", "_ASL", "ZEROPAGE", 2, 5, 0),  \* 06
    Instruction("SLO", "_noimpl", "ZEROPAGE", 0, 5, 0),  \* 07
    Instruction("PHP", "_PHP", "IMPLIED", 1, 3, 0),  \* 08
    Instruction("ORA", "_ORA", "IMMEDIATE", 2, 2, 0),  \* 09
    Instruction("ASL", "_ASL", "ACCUMULATOR", 1, 2, 0),  \* 0a
    Instruction("ANC", "_noimpl", "IMMEDIATE", 0, 2, 0),  \* 0b
    Instruction("NOP", "_NOP", "ABSOLUTE", 3, 4, 0),  \* 0c
    Instruction("ORA", "_ORA", "ABSOLUTE", 3, 4, 0),  \* 0d
    Instruction("ASL", "_ASL", "ABSOLUTE", 3, 6, 0),  \* 0e
    Instruction("SLO", "_noimpl", "ABSOLUTE", 0, 6, 0),  \* 0f
    Instruction("BPL", "_BPL", "RELATIVE", 2, 2, 1),  \* 10
    Instruction("ORA", "_ORA", "INDIRECT_INDEXED", 2, 5, 1),  \* 11
    Instruction("KIL", "_noimpl", "IMPLIED", 0, 2, 0),  \* 12
    Instruction("SLO", "_noimpl", "INDIRECT_INDEXED", 0, 8, 0),  \* 13
    Instruction("NOP", "_NOP", "ZEROPAGE_X", 2, 4, 0),  \* 14
    Instruction("ORA", "_ORA", "ZEROPAGE_X", 2, 4, 0),  \* 15
    Instruction("ASL", "_ASL", "ZEROPAGE_X", 2, 6, 0),  \* 16
    Instruction("SLO", "_noimpl", "ZEROPAGE_X", 0, 6, 0),  \* 17
    Instruction("CLC", "_CLC", "IMPLIED", 1, 2, 0),  \* 18
    Instruction("ORA", "_ORA", "ABSOLUTE_Y", 3, 4, 1),  \* 19
    Instruction("NOP", "_NOP", "IMPLIED", 1, 2, 0),  \* 1a
    Instruction("SLO", "_noimpl", "ABSOLUTE_Y", 0, 7, 0),  \* 1b
    Instruction("NOP", "_NOP", "ABSOLUTE_X", 3, 4, 1),  \* 1c
    Instruction("ORA", "_ORA", "ABSOLUTE_X", 3, 4, 1),  \* 1d
    Instruction("ASL", "_ASL", "ABSOLUTE_X", 3, 7, 0),  \* 1e
    Instruction("SLO", "_noimpl", "ABSOLUTE_X", 0, 7, 0),  \* 1f
    Instruction("JSR", "_JSR", "ABSOLUTE", 3, 6, 0),  \* 20
    Instruction("AND", "_AND", "INDEXED_INDIRECT", 2, 6, 0),  \* 21
    Instruction("KIL", "_noimpl", "IMPLIED", 0, 2, 0),  \* 22
    Instruction("RLA", "_noimpl", "INDEXED_INDIRECT", 0, 8, 0),  \* 23
    Instruction("BIT", "_BIT", "ZEROPAGE", 2, 3, 0),  \* 24
    Instruction("AND", "_AND", "ZEROPAGE", 2, 3, 0),  \* 25
    Instruction("ROL", "_ROL", "ZEROPAGE", 2, 5, 0),  \* 26
    Instruction("RLA", "_noimpl", "ZEROPAGE", 0, 5, 0),  \* 27
    Instruction("PLP", "_PLP", "IMPLIED", 1, 4, 0),  \* 28
    Instruction("AND", "_AND", "IMMEDIATE", 2, 2, 0),  \* 29
    Instruction("ROL", "_ROL", "ACCUMULATOR", 1, 2, 0),  \* 2a
    Instruction("ANC", "_noimpl", "IMMEDIATE", 0, 2, 0),  \* 2b
    Instruction("BIT", "_BIT", "ABSOLUTE", 3, 4, 0),  \* 2c
    Instruction("AND", "_AND", "ABSOLUTE", 3, 4, 0),  \* 2d
    Instruction("ROL", "_ROL", "ABSOLUTE", 3, 6, 0),  \* 2e
    Instruction("RLA", "_noimpl", "ABSOLUTE", 0, 6, 0),  \* 2f
    Instruction("BMI", "_BMI", "RELATIVE", 2, 2, 1),  \* 30
    Instruction("AND", "_AND", "INDIRECT_INDEXED", 2, 5, 1),  \* 31
    Instruction("KIL", "_noimpl", "IMPLIED", 0, 2, 0),  \* 32
    Instruction("RLA", "_noimpl", "INDIRECT_INDEXED", 0, 8, 0),  \* 33
    Instruction("NOP", "_NOP", "ZEROPAGE_X", 2, 4, 0),  \* 34
    Instruction("AND", "_AND", "ZEROPAGE_X", 2, 4, 0),  \* 35
    Instruction("ROL", "_ROL", "ZEROPAGE_X", 2, 6, 0),  \* 36
    Instruction("RLA", "_noimpl", "ZEROPAGE_X", 0, 6, 0),  \* 37
    Instruction("SEC", "_SEC", "IMPLIED", 1, 2, 0),  \* 38
    Instruction("AND", "_AND", "ABSOLUTE_Y", 3, 4, 1),  \* 39
    Instruction("NOP", "_NOP", "IMPLIED", 1, 2, 0),  \* 3a
    Instruction("RLA", "_noimpl", "ABSOLUTE_Y", 0, 7, 0),  \* 3b
    Instruction("NOP", "_NOP", "ABSOLUTE_X", 3, 4, 1),  \* 3c
    Instruction("AND", "_AND", "ABSOLUTE_X", 3, 4, 1),  \* 3d
    Instruction("ROL", "_ROL", "ABSOLUTE_X", 3, 7, 0),  \* 3e
    Instruction("RLA", "_noimpl", "ABSOLUTE_X", 0, 7, 0),  \* 3f
    Instruction("RTI", "_RTI", "IMPLIED", 1, 6, 0),  \* 40
    Instruction("EOR", "_EOR", "INDEXED_INDIRECT", 2, 6, 0),  \* 41
    Instruction("KIL", "_noimpl", "IMPLIED", 0, 2, 0),  \* 42
    Instruction("SRE", "_noimpl", "INDEXED_INDIRECT", 0, 8, 0),  \* 43
    Instruction("NOP", "_NOP", "ZEROPAGE", 2, 3, 0),  \* 44
    Instruction("EOR", "_EOR", "ZEROPAGE", 2, 3, 0),  \* 45
    Instruction("LSR", "_LSR", "ZEROPAGE", 2, 5, 0),  \* 46
    Instruction("SRE", "_noimpl", "ZEROPAGE", 0, 5, 0),  \* 47
    Instruction("PHA", "_PHA", "IMPLIED", 1, 3, 0),  \* 48
    Instruction("EOR", "_EOR", "IMMEDIATE", 2, 2, 0),  \* 49
    Instruction("LSR", "_LSR", "ACCUMULATOR", 1, 2, 0),  \* 4a
    Instruction("ALR", "_noimpl", "IMMEDIATE", 0, 2, 0),  \* 4b
    Instruction("JMP", "_JMP", "ABSOLUTE", 3, 3, 0),  \* 4c
    Instruction("EOR", "_EOR", "ABSOLUTE", 3, 4, 0),  \* 4d
    Instruction("LSR", "_LSR", "ABSOLUTE", 3, 6, 0),  \* 4e
    Instruction("SRE", "_noimpl", "ABSOLUTE", 0, 6, 0),  \* 4f
    Instruction("BVC", "_BVC", "RELATIVE", 2, 2, 1),  \* 50
    Instruction("EOR", "_EOR", "INDIRECT_INDEXED", 2, 5, 1),  \* 51
    Instruction("KIL", "_noimpl", "IMPLIED", 0, 2, 0),  \* 52
    Instruction("SRE", "_noimpl", "INDIRECT_INDEXED", 0, 8, 0),  \* 53
    Instruction("NOP", "_NOP", "ZEROPAGE_X", 2, 4, 0),  \* 54
    Instruction("EOR", "_EOR", "ZEROPAGE_X", 2, 4, 0),  \* 55
    Instruction("LSR", "_LSR", "ZEROPAGE_X", 2, 6, 0),  \* 56
    Instruction("SRE", "_noimpl", "ZEROPAGE_X", 0, 6, 0),  \* 57
    Instruction("CLI", "_CLI", "IMPLIED", 1, 2, 0),  \* 58
    Instruction("EOR", "_EOR", "ABSOLUTE_Y", 3, 4, 1),  \* 59
    Instruction("NOP", "_NOP", "IMPLIED", 1, 2, 0),  \* 5a
    Instruction("SRE", "_noimpl", "ABSOLUTE_Y", 0, 7, 0),  \* 5b
    Instruction("NOP", "_NOP", "ABSOLUTE_X", 3, 4, 1),  \* 5c
    Instruction("EOR", "_EOR", "ABSOLUTE_X", 3, 4, 1),  \* 5d
    Instruction("LSR", "_LSR", "ABSOLUTE_X", 3, 7, 0),  \* 5e
    Instruction("SRE", "_noimpl", "ABSOLUTE_X", 0, 7, 0),  \* 5f
    Instruction("RTS", "_RTS", "IMPLIED", 1, 6, 0),  \* 60
    Instruction("ADC", "_ADC", "INDEXED_INDIRECT", 2, 6, 0),  \* 61
    Instruction("KIL", "_noimpl", "IMPLIED", 0, 2, 0),  \* 62
    Instruction("RRA", "_noimpl", "INDEXED_INDIRECT", 0, 8, 0),  \* 63
    Instruction("NOP", "_NOP", "ZEROPAGE", 2, 3, 0),  \* 64
    Instruction("ADC", "_ADC", "ZEROPAGE", 2, 3, 0),  \* 65
    Instruction("ROR", "_ROR", "ZEROPAGE", 2, 5, 0),  \* 66
    Instruction("RRA", "_noimpl", "ZEROPAGE", 0, 5, 0),  \* 67
    Instruction("PLA", "_PLA", "IMPLIED", 1, 4, 0),  \* 68
    Instruction("ADC", "_ADC", "IMMEDIATE", 2, 2, 0),  \* 69
    Instruction("ROR", "_ROR", "ACCUMULATOR", 1, 2, 0),  \* 6a
    Instruction("ARR", "_noimpl", "IMMEDIATE", 0, 2, 0),  \* 6b
    Instruction("JMP", "_JMP", "INDIRECT", 3, 5, 0),  \* 6c
    Instruction("ADC", "_ADC", "ABSOLUTE", 3, 4, 0),  \* 6d
    Instruction("ROR", "_ROR", "ABSOLUTE", 3, 6, 0),  \* 6e
    Instruction("RRA", "_noimpl", "ABSOLUTE", 0, 6, 0),  \* 6f
    Instruction("BVS", "_BVS", "RELATIVE", 2, 2, 1),  \* 70
    Instruction("ADC", "_ADC", "INDIRECT_INDEXED", 2, 5, 1),  \* 71
    Instruction("KIL", "_noimpl", "IMPLIED", 0, 2, 0),  \* 72
    Instruction("RRA", "_noimpl", "INDIRECT_INDEXED", 0, 8, 0),  \* 73
    Instruction("NOP", "_NOP", "ZEROPAGE_X", 2, 4, 0),  \* 74
    Instruction("ADC", "_ADC", "ZEROPAGE_X", 2, 4, 0),  \* 75
    Instruction("ROR", "_ROR", "ZEROPAGE_X", 2, 6, 0),  \* 76
    Instruction("RRA", "_noimpl", "ZEROPAGE_X", 0, 6, 0),  \* 77
    Instruction("SEI", "_SEI", "IMPLIED", 1, 2, 0),  \* 78
    Instruction("ADC", "_ADC", "ABSOLUTE_Y", 3, 4, 1),  \* 79
    Instruction("NOP", "_NOP", "IMPLIED", 1, 2, 0),  \* 7a
    Instruction("RRA", "_noimpl", "ABSOLUTE_Y", 0, 7, 0),  \* 7b
    Instruction("NOP", "_NOP", "ABSOLUTE_X", 3, 4, 1),  \* 7c
    Instruction("ADC", "_ADC", "ABSOLUTE_X", 3, 4, 1),  \* 7d
    Instruction("ROR", "_ROR", "ABSOLUTE_X", 3, 7, 0),  \* 7e
    Instruction("RRA", "_noimpl", "ABSOLUTE_X", 0, 7, 0),  \* 7f
    Instruction("NOP", "_NOP", "IMMEDIATE", 2, 2, 0),  \* 80
    Instruction("STA", "_STA", "INDEXED_INDIRECT", 2, 6, 0),  \* 81
    Instruction("NOP", "_NOP", "IMMEDIATE", 0, 2, 0),  \* 82
    Instruction("SAX", "_noimpl", "INDEXED_INDIRECT", 0, 6, 0),  \* 83
    Instruction("STY", "_STY", "ZEROPAGE", 2, 3, 0),  \* 84
    Instruction("STA", "_STA", "ZEROPAGE", 2, 3, 0),  \* 85
    Instruction("STX", "_STX", "ZEROPAGE", 2, 3, 0),  \* 86
    Instruction("SAX", "_noimpl", "ZEROPAGE", 0, 3, 0),  \* 87
    Instruction("DEY", "_DEY", "IMPLIED", 1, 2, 0),  \* 88
    Instruction("NOP", "_NOP", "IMMEDIATE", 0, 2, 0),  \* 89
    Instruction("TXA", "_TXA", "IMPLIED", 1, 2, 0),  \* 8a
    Instruction("XAA", "_noimpl", "IMMEDIATE", 0, 2, 0),  \* 8b
    Instruction("STY", "_STY", "ABSOLUTE", 3, 4, 0),  \* 8c
    Instruction("STA", "_STA", "ABSOLUTE", 3, 4, 0),  \* 8d
    Instruction("STX", "_STX", "ABSOLUTE", 3, 4, 0),  \* 8e
    Instruction("SAX", "_noimpl", "ABSOLUTE", 0, 4, 0),  \* 8f
    Instruction("BCC", "_BCC", "RELATIVE", 2, 2, 1),  \* 90
    Instruction("STA", "_STA", "INDIRECT_INDEXED", 2, 6, 0),  \* 91
    Instruction("KIL", "_noimpl", "IMPLIED", 0, 2, 0),  \* 92
    Instruction("AHX", "_noimpl", "INDIRECT_INDEXED", 0, 6, 0),  \* 93
    Instruction("STY", "_STY", "ZEROPAGE_X", 2, 4, 0),  \* 94
    Instruction("STA", "_STA", "ZEROPAGE_X", 2, 4, 0),  \* 95
    Instruction("STX", "_STX", "ZEROPAGE_Y", 2, 4, 0),  \* 96
    Instruction("SAX", "_noimpl", "ZEROPAGE_Y", 0, 4, 0),  \* 97
    Instruction("TYA", "_TYA", "IMPLIED", 1, 2, 0),  \* 98
    Instruction("STA", "_STA", "ABSOLUTE_Y", 3, 5, 0),  \* 99
    Instruction("TXS", "_TXS", "IMPLIED", 1, 2, 0),  \* 9a
    Instruction("TAS", "_noimpl", "ABSOLUTE_Y", 0, 5, 0),  \* 9b
    Instruction("SHY", "_noimpl", "ABSOLUTE_X", 0, 5, 0),  \* 9c
    Instruction("STA", "_STA", "ABSOLUTE_X", 3, 5, 0),  \* 9d
    Instruction("SHX", "_noimpl", "ABSOLUTE_Y", 0, 5, 0),  \* 9e
    Instruction("AHX", "_noimpl", "ABSOLUTE_Y", 0, 5, 0),  \* 9f
    Instruction("LDY", "_LDY", "IMMEDIATE", 2, 2, 0),  \* a0
    Instruction("LDA", "_LDA", "INDEXED_INDIRECT", 2, 6, 0),  \* a1
    Instruction("LDX", "_LDX", "IMMEDIATE", 2, 2, 0),  \* a2
    Instruction("LAX", "_noimpl", "INDEXED_INDIRECT", 0, 6, 0),  \* a3
    Instruction("LDY", "_LDY", "ZEROPAGE", 2, 3, 0),  \* a4
    Instruction("LDA", "_LDA", "ZEROPAGE", 2, 3, 0),  \* a5
    Instruction("LDX", "_LDX", "ZEROPAGE", 2, 3, 0),  \* a6
    Instruction("LAX", "_noimpl", "ZEROPAGE", 0, 3, 0),  \* a7
    Instruction("TAY", "_TAY", "IMPLIED", 1, 2, 0),  \* a8
    Instruction("LDA", "_LDA", "IMMEDIATE", 2, 2, 0),  \* a9
    Instruction("TAX", "_TAX", "IMPLIED", 1, 2, 0),  \* aa
    Instruction("LAX", "_noimpl", "IMMEDIATE", 0, 2, 0),  \* ab
    Instruction("LDY", "_LDY", "ABSOLUTE", 3, 4, 0),  \* ac
    Instruction("LDA", "_LDA", "ABSOLUTE", 3, 4, 0),  \* ad
    Instruction("LDX", "_LDX", "ABSOLUTE", 3, 4, 0),  \* ae
    Instruction("LAX", "_noimpl", "ABSOLUTE", 0, 4, 0),  \* af
    Instruction("BCS", "_BCS", "RELATIVE", 2, 2, 1),  \* b0
    Instruction("LDA", "_LDA", "INDIRECT_INDEXED", 2, 5, 1),  \* b1
    Instruction("KIL", "_noimpl", "IMPLIED", 0, 2, 0),  \* b2
    Instruction("LAX", "_noimpl", "INDIRECT_INDEXED", 0, 5, 1),  \* b3
    Instruction("LDY", "_LDY", "ZEROPAGE_X", 2, 4, 0),  \* b4
    Instruction("LDA", "_LDA", "ZEROPAGE_X", 2, 4, 0),  \* b5
    Instruction("LDX", "_LDX", "ZEROPAGE_Y", 2, 4, 0),  \* b6
    Instruction("LAX", "_noimpl", "ZEROPAGE_Y", 0, 4, 0),  \* b7
    Instruction("CLV", "_CLV", "IMPLIED", 1, 2, 0),  \* b8
    Instruction("LDA", "_LDA", "ABSOLUTE_Y", 3, 4, 1),  \* b9
    Instruction("TSX", "_TSX", "IMPLIED", 1, 2, 0),  \* ba
    Instruction("LAS", "_noimpl", "ABSOLUTE_Y", 0, 4, 1),  \* bb
    Instruction("LDY", "_LDY", "ABSOLUTE_X", 3, 4, 1),  \* bc
    Instruction("LDA", "_LDA", "ABSOLUTE_X", 3, 4, 1),  \* bd
    Instruction("LDX", "_LDX", "ABSOLUTE_Y", 3, 4, 1),  \* be
    Instruction("LAX", "_noimpl", "ABSOLUTE_Y", 0, 4, 1),  \* bf
    Instruction("CPY", "_CPY", "IMMEDIATE", 2, 2, 0),  \* c0
    Instruction("CMP", "_CMP", "INDEXED_INDIRECT", 2, 6, 0),  \* c1
    Instruction("NOP", "_NOP", "IMMEDIATE", 0, 2, 0),  \* c2
    Instruction("DCP", "_noimpl", "INDEXED_INDIRECT", 0, 8, 0),  \* c3
    Instruction("CPY", "_CPY", "ZEROPAGE", 2, 3, 0),  \* c4
    Instruction("CMP", "_CMP", "ZEROPAGE", 2, 3, 0),  \* c5
    Instruction("DEC", "_DEC", "ZEROPAGE", 2, 5, 0),  \* c6
    Instruction("DCP", "_noimpl", "ZEROPAGE", 0, 5, 0),  \* c7
    Instruction("INY", "_INY", "IMPLIED", 1, 2, 0),  \* c8
    Instruction("CMP", "_CMP", "IMMEDIATE", 2, 2, 0),  \* c9
    Instruction("DEX", "_DEX", "IMPLIED", 1, 2, 0),  \* ca
    Instruction("AXS", "_noimpl", "IMMEDIATE", 0, 2, 0),  \* cb
    Instruction("CPY", "_CPY", "ABSOLUTE", 3, 4, 0),  \* cc
    Instruction("CMP", "_CMP", "ABSOLUTE", 3, 4, 0),  \* cd
    Instruction("DEC", "_DEC", "ABSOLUTE", 3, 6, 0),  \* ce
    Instruction("DCP", "_noimpl", "ABSOLUTE", 0, 6, 0),  \* cf
    Instruction("BNE", "_BNE", "RELATIVE", 2, 2, 1),  \* d0
    Instruction("CMP", "_CMP", "INDIRECT_INDEXED", 2, 5, 1),  \* d1
    Instruction("KIL", "_noimpl", "IMPLIED", 0, 2, 0),  \* d2
    Instruction("DCP", "_noimpl", "INDIRECT_INDEXED", 0, 8, 0),  \* d3
    Instruction("NOP", "_NOP", "ZEROPAGE_X", 2, 4, 0),  \* d4
    Instruction("CMP", "_CMP", "ZEROPAGE_X", 2, 4, 0),  \* d5
    Instruction("DEC", "_DEC", "ZEROPAGE_X", 2, 6, 0),  \* d6
    Instruction("DCP", "_noimpl", "ZEROPAGE_X", 0, 6, 0),  \* d7
    Instruction("CLD", "_CLD", "IMPLIED", 1, 2, 0),  \* d8
    Instruction("CMP", "_CMP", "ABSOLUTE_Y", 3, 4, 1),  \* d9
    Instruction("NOP", "_NOP", "IMPLIED", 1, 2, 0),  \* da
    Instruction("DCP", "_noimpl", "ABSOLUTE_Y", 0, 7, 0),  \* db
    Instruction("NOP", "_NOP", "ABSOLUTE_X", 3, 4, 1),  \* dc
    Instruction("CMP", "_CMP", "ABSOLUTE_X", 3, 4, 1),  \* dd
    Instruction("DEC", "_DEC", "ABSOLUTE_X", 3, 7, 0),  \* de
    Instruction("DCP", "_noimpl", "ABSOLUTE_X", 0, 7, 0),  \* df
    Instruction("CPX", "_CPX", "IMMEDIATE", 2, 2, 0),  \* e0
    Instruction("SBC", "_SBC", "INDEXED_INDIRECT", 2, 6, 0),  \* e1
    Instruction("NOP", "_NOP", "IMMEDIATE", 0, 2, 0),  \* e2
    Instruction("ISC", "_noimpl", "INDEXED_INDIRECT", 0, 8, 0),  \* e3
    Instruction("CPX", "_CPX", "ZEROPAGE", 2, 3, 0),  \* e4
    Instruction("SBC", "_SBC", "ZEROPAGE", 2, 3, 0),  \* e5
    Instruction("INC", "_INC", "ZEROPAGE", 2, 5, 0),  \* e6
    Instruction("ISC", "_noimpl", "ZEROPAGE", 0, 5, 0),  \* e7
    Instruction("INX", "_INX", "IMPLIED", 1, 2, 0),  \* e8
    Instruction("SBC", "_SBC", "IMMEDIATE", 2, 2, 0),  \* e9
    Instruction("NOP", "_NOP", "IMPLIED", 1, 2, 0),  \* ea
    Instruction("SBC", "_SBC", "IMMEDIATE", 0, 2, 0),  \* eb
    Instruction("CPX", "_CPX", "ABSOLUTE", 3, 4, 0),  \* ec
    Instruction("SBC", "_SBC", "ABSOLUTE", 3, 4, 0),  \* ed
    Instruction("INC", "_INC", "ABSOLUTE", 3, 6, 0),  \* ee
    Instruction("ISC", "_noimpl", "ABSOLUTE", 0, 6, 0),  \* ef
    Instruction("BEQ", "_BEQ", "RELATIVE", 2, 2, 1),  \* f0
    Instruction("SBC", "_SBC", "INDIRECT_INDEXED", 2, 5, 1),  \* f1
    Instruction("KIL", "_noimpl", "IMPLIED", 0, 2, 0),  \* f2
    Instruction("ISC", "_noimpl", "INDIRECT_INDEXED", 0, 8, 0),  \* f3
    Instruction("NOP", "_NOP", "ZEROPAGE_X", 2, 4, 0),  \* f4
    Instruction("SBC", "_SBC", "ZEROPAGE_X", 2, 4, 0),  \* f5
    Instruction("INC", "_INC", "ZEROPAGE_X", 2, 6, 0),  \* f6
    Instruction("ISC", "_noimpl", "ZEROPAGE_X", 0, 6, 0),  \* f7
    Instruction("SED", "_SED", "IMPLIED", 1, 2, 0),  \* f8
    Instruction("SBC", "_SBC", "ABSOLUTE_Y", 3, 4, 1),  \* f9
    Instruction("NOP", "_NOP", "IMPLIED", 1, 2, 0),  \* fa
    Instruction("ISC", "_noimpl", "ABSOLUTE_Y", 0, 7, 0),  \* fb
    Instruction("NOP", "_NOP", "ABSOLUTE_X", 3, 4, 1),  \* fc
    Instruction("SBC", "_SBC", "ABSOLUTE_X", 3, 4, 1),  \* fd
    Instruction("INC", "_INC", "ABSOLUTE_X", 3, 7, 0),  \* fe
    Instruction("ISC", "_noimpl", "ABSOLUTE_X", 0, 7, 0)  \* ff
    >>

---------------------------------------------------------------------------
(* cpu.py: addressing and the memory map *)

different_pages(addr1, addr2) == BitAnd(addr1, 65280) # BitAnd(addr2, 65280)

\* self.ram[i], read directly
ram_at(s, i) ==
    IF ~Ok(s) THEN s
    ELSE IF i < MEM_SIZE THEN Return(s, Get(s.ram, i))
    ELSE Raise(s, "IndexError")

_address_for_mode(s, data, mode) ==
    IF ~Ok(s) THEN s
    ELSE IF mode = "ABSOLUTE" THEN Return(s, data)
    ELSE IF mode = "ABSOLUTE_X" THEN
        LET addr == (data + s.cpu.X) % 65536
        IN  [s EXCEPT !.ret = addr,
                      !.cpu.page_crossed = different_pages(addr, addr - s.cpu.X)]
    ELSE IF mode = "ABSOLUTE_Y" THEN
        LET addr == (data + s.cpu.Y) % 65536
        IN  [s EXCEPT !.ret = addr,
                      !.cpu.page_crossed = different_pages(addr, addr - s.cpu.Y)]
    ELSE IF mode = "INDEXED_INDIRECT" THEN
        LET ls == Get(s.ram, (data + s.cpu.X) % 256)
            ms == Get(s.ram, (data + s.cpu.X + 1) % 256)
        IN  Return(s, ms * 256 + ls)
    ELSE IF mode = "INDIRECT" THEN
        LET word(r1, r3) == IF Ok(r3) THEN Return(r3, r3.ret * 256 + r1.ret) ELSE r3
            high(r1, r2) ==
                word(r1, IF data % 256 = 255 THEN ram_at(r2, BitAnd(data, 65280)) ELSE r2)
            low(r1) == high(r1, ram_at(r1, data + 1))
        IN  low(ram_at(s, data))
    ELSE IF mode = "INDIRECT_INDEXED" THEN
        LET ls == Get(s.ram, data % 256)
            ms == Get(s.ram, (data + 1) % 256)
            addr == (ms * 256 + ls + s.cpu.Y) % 65536
        IN  [s EXCEPT !.ret = addr,
                      !.cpu.page_crossed = different_pages(addr, addr - s.cpu.Y)]
    ELSE IF mode = "RELATIVE" THEN
        IF data < 128 THEN Return(s, (s.cpu.PC + 2 + data) % 65536)
        ELSE Return(s, (s.cpu.PC + 2 + (data - 256)) % 65536)
    ELSE IF mode = "ZEROPAGE" THEN Return(s, data)
    ELSE IF mode = "ZEROPAGE_X" THEN Return(s, (data + s.cpu.X) % 256)
    ELSE IF mode = "ZEROPAGE_Y" THEN Return(s, (data + s.cpu.Y) % 256)
    ELSE Return(s, 0)

\* the 0x4016 arm of CPU._read_memory
joypad_read(s) ==
    IF s.joypad1.strobe THEN Return(s, B2I(s.joypad1.a))
    ELSE LET n == s.joypad1.read_count + 1
             s1 == [s EXCEPT !.joypad1.read_count = n]
         IN  \* every arm of the match tests 1: only the first can be taken
             IF n = 1 THEN Return(s1, BitOr(64, B2I(s.joypad1.a)))
             ELSE IF n = 1 THEN Return(s1, BitOr(64, B2I(s.joypad1.b)))
             ELSE IF n = 1 THEN Return(s1, BitOr(64, B2I(s.joypad1.select)))
             ELSE IF n = 1 THEN Return(s1, BitOr(64, B2I(s.joypad1.start)))
             ELSE IF n = 1 THEN Return(s1, BitOr(64, B2I(s.joypad1.up)))
             ELSE IF n = 1 THEN Return(s1, BitOr(64, B2I(s.joypad1.down)))
             ELSE IF n = 1 THEN Return(s1, BitOr(64, B2I(s.joypad1.left)))
             ELSE IF n = 1 THEN Return(s1, BitOr(64, B2I(s.joypad1.right)))
             ELSE Return(s1, 65)

_read_memory(s, loc, mode) ==
    IF ~Ok(s) THEN s
    ELSE IF mode = "IMMEDIATE" THEN Return(s, loc)
    ELSE LET read(s1, addr) ==
                 IF ~Ok(s1) THEN s1
                 ELSE IF addr < 8192 THEN Return(s1, Get(s1.ram, addr % 2048))
                 ELSE IF addr < 16384 THEN read_register(s1, BitOr(addr % 8, 8192))
                 ELSE IF addr = 16406 THEN joypad_read(s1)
                 ELSE IF addr < 24576 THEN Return(s1, 0)
                 ELSE _read_mapper0(s1, addr)
             at(s1) == read(s1, s1.ret)
         IN  at(_address_for_mode(s, loc, mode))

\* the 0x4014 arm of CPU._write_memory: ppu.spr[i] = read(from_addr + i) for i in
\* lo..hi-1 in turn, the first half of the range and then the second
RECURSIVE dma_copy(_, _, _, _)
dma_copy(s, from_addr, lo, hi) ==
    IF ~Ok(s) THEN s
    ELSE IF hi - lo = 1
    THEN LET copied(r) == IF Ok(r) THEN [r EXCEPT !.ppu.spr = Put(@, lo, r.ret)] ELSE r
         IN  copied(_read_memory(s, from_addr + lo, "ABSOLUTE"))
    ELSE LET mid == (lo + hi) \div 2
         IN  dma_copy(dma_copy(s, from_addr, lo, mid), from_addr, mid, hi)

_write_memory(s, loc, mode, val) ==
    IF ~Ok(s) THEN s
    ELSE IF mode = "IMMEDIATE" THEN
        IF loc < MEM_SIZE THEN [s EXCEPT !.ram = Put(@, loc, val)]
        ELSE Raise(s, "IndexError")
    ELSE LET stalled(r) == IF Ok(r) THEN [r EXCEPT !.cpu.stall = 512] ELSE r
             write(s1, addr) ==
                 IF addr < 8192 THEN [s1 EXCEPT !.ram = Put(@, addr % 2048, val)]
                 ELSE IF addr < 16383 THEN write_register(s1, BitOr(addr % 8, 8192), val)
                 ELSE IF addr = 16404 THEN stalled(dma_copy(s1, val * 256, 0, SPR_RAM_SIZE))
                 ELSE IF addr = 16406 THEN
                     [s1 EXCEPT !.joypad1.read_count =
                                    IF s.joypad1.strobe /\ BitAnd(val, 1) = 0 THEN 0 ELSE @,
                                !.joypad1.strobe = BitAnd(val, 1) # 0]
                 ELSE IF addr < 24576 THEN s1
                 ELSE _write_mapper0(s1, addr, val)
             at(s0) ==
                 IF ~Ok(s0) THEN s0
                 ELSE write([s0 EXCEPT !.wr = [addr |-> s0.ret, val |-> val]], s0.ret)
         IN  at(_address_for_mode(s, loc, mode))

_setZN(s, val) ==
    [s EXCEPT !.cpu.Z = (val = 0),
              !.cpu.N = (BitAnd(val, 128) # 0) \/ (val < 0)]

_stack_push(s, val) ==
    IF ~Ok(s) THEN s
    ELSE [s EXCEPT !.ram = Put(@, BitOr(256, s.cpu.SP), val),
                   !.cpu.SP = (s.cpu.SP - 1) % 256]

\* _stack_pop reading the byte under SP before moving SP
_stack_pop_read_first(s) ==
    IF ~Ok(s) THEN s
    ELSE [s EXCEPT !.cpu.SP = (s.cpu.SP + 1) % 256,
                   !.ret = Get(s.ram, BitOr(256, s.cpu.SP))]

_stack_pop(s) ==
    IF ~Ok(s) THEN s
    ELSE LET sp == (s.cpu.SP + 1) % 256
         IN  [s EXCEPT !.cpu.SP = sp, !.ret = Get(s.ram, BitOr(256, sp))]

status(c) ==
    B2I(c.C) + B2I(c.Z) * 2 + B2I(c.I) * 4 + B2I(c.D) * 8 + B2I(c.B) * 16
        + 32 + B2I(c.V) * 64 + B2I(c.N) * 128

\* _set_status with overflow and negative taken from each other's bit
_set_status_swapped(s, tmp) ==
    [s EXCEPT !.cpu.C = BitAnd(tmp, 1) # 0,
              !.cpu.Z = BitAnd(tmp, 2) # 0,
              !.cpu.I = BitAnd(tmp, 4) # 0,
              !.cpu.D = BitAnd(tmp, 8) # 0,
              !.cpu.B = FALSE,
              !.cpu.V = BitAnd(tmp, 128) # 0,
              !.cpu.N = BitAnd(tmp, 64) # 0]

_set_status(s, tmp) ==
    [s EXCEPT !.cpu.C = BitAnd(tmp, 1) # 0,
              !.cpu.Z = BitAnd(tmp, 2) # 0,
              !.cpu.I = BitAnd(tmp, 4) # 0,
              !.cpu.D = BitAnd(tmp, 8) # 0,
              !.cpu.B = FALSE,
              !.cpu.V = BitAnd(tmp, 64) # 0,
              !.cpu.N = BitAnd(tmp, 128) # 0]

\* the little-endian word at vector and vector + 1
read_vector(s, vector) ==
    LET word(r1, r2) ==
            IF Ok(r2) THEN [r2 EXCEPT !.cpu.PC = BitOr(r1.ret, r2.ret * 256)] ELSE r2
        low(r1) == word(r1, _read_memory(r1, vector + 1, "ABSOLUTE"))
    IN  low(_read_memory(s, vector, "ABSOLUTE"))

\* trigger_NMI pushing the low byte of PC before the high byte
trigger_NMI_low_first(s) ==
    LET s1 == _stack_push(s, s.cpu.PC % 256)
        s2 == _stack_push(s1, (s.cpu.PC \div 256) % 256)
        s3 == _stack_push(s2, status([s.cpu EXCEPT !.B = TRUE]))
        s4 == [s3 EXCEPT !.cpu.B = FALSE, !.cpu.I = TRUE]
    IN  read_vector(s4, NMI_VECTOR)

trigger_NMI(s) ==
    LET s1 == _stack_push(s, (s.cpu.PC \div 256) % 256)
        s2 == _stack_push(s1, s.cpu.PC % 256)
        s3 == _stack_push(s2, status([s.cpu EXCEPT !.B = TRUE]))
        s4 == [s3 EXCEPT !.cpu.B = FALSE, !.cpu.I = TRUE]
    IN  read_vector(s4, NMI_VECTOR)

---------------------------------------------------------------------------
(* cpu.py: the instruction handlers *)

\* the operand of a read-modify-write instruction: A or the byte at the address
operand_of(s, instruction, data) ==
    IF instruction.mode = "ACCUMULATOR" THEN Return(s, s.cpu.A)
    ELSE _read_memory(s, data, instruction.mode)

\* its destination
store_result(s, instruction, data, src) ==
    IF ~Ok(s) THEN s
    ELSE IF instruction.mode = "ACCUMULATOR" THEN [s EXCEPT !.cpu.A = src]
    ELSE _write_memory(s, data, instruction.mode, src)

\* self.PC = self._address_for_mode(data, mode); self.jumped = True, when cond
branch_if(s, cond, instruction, data) ==
    IF cond
    THEN LET jump(r) == [r EXCEPT !.cpu.PC = r.ret, !.cpu.jumped = TRUE]
         IN  jump(_address_for_mode(s, data, instruction.mode))
    ELSE s

\* _ADC with the overflow taken from the sign of the result alone
_ADC_result_sign(s, instruction, data) ==
    LET result(r) ==
            LET src == r.ret
                signed_result == src + s.cpu.A + B2I(s.cpu.C)
                a == (s.cpu.A + src + B2I(s.cpu.C)) % 256
            IN  IF ~Ok(r) THEN r
                ELSE _setZN([r EXCEPT
                         !.cpu.V = Bit(s.cpu.A, 7) # Bit(signed_result, 7),
                         !.cpu.A = a,
                         !.cpu.C = signed_result > 255], a)
    IN  result(_read_memory(s, data, instruction.mode))

_ADC(s, instruction, data) ==
    LET result(r) ==
            LET src == r.ret
                signed_result == src + s.cpu.A + B2I(s.cpu.C)
                a == (s.cpu.A + src + B2I(s.cpu.C)) % 256
            IN  IF ~Ok(r) THEN r
                ELSE _setZN([r EXCEPT
                         !.cpu.V = (Bit(s.cpu.A, 7) = Bit(src, 7))
                                   /\ (Bit(s.cpu.A, 7) # Bit(signed_result, 7)),
                         !.cpu.A = a,
                         !.cpu.C = signed_result > 255], a)
    IN  result(_read_memory(s, data, instruction.mode))

_AND(s, instruction, data) ==
    LET result(r, a) == IF ~Ok(r) THEN r ELSE _setZN([r EXCEPT !.cpu.A = a], a)
        combine(r) == result(r, BitAnd(s.cpu.A, r.ret))
    IN  combine(_read_memory(s, data, instruction.mode))

_ASL(s, instruction, data) ==
    LET result(r, src) ==
            IF ~Ok(r) THEN r
            ELSE store_result(_setZN([r EXCEPT !.cpu.C = (r.ret \div 128) # 0], src),
                              instruction, data, src)
        shift(r) == result(r, (r.ret * 2) % 256)
    IN  shift(operand_of(s, instruction, data))

_BCC(s, instruction, data) == branch_if(s, ~s.cpu.C, instruction, data)

_BCS(s, instruction, data) == branch_if(s, ~s.cpu.C, instruction, data)

\* the target is assigned to the attribute pc, not to PC
_BEQ(s, instruction, data) ==
    IF s.cpu.Z
    THEN LET jump(r) == [r EXCEPT !.cpu.pc = r.ret, !.cpu.jumped = TRUE]
         IN  jump(_address_for_mode(s, data, instruction.mode))
    ELSE s

_BIT(s, instruction, data) ==
    LET result(r) ==
            LET src == r.ret
            IN  IF ~Ok(r) THEN r
                ELSE [r EXCEPT !.cpu.V = Bit(src, 6) = 1,
                               !.cpu.Z = BitAnd(src, s.cpu.A) = 0,
                               !.cpu.N = (src \div 128) = 1]
    IN  result(_read_memory(s, data, instruction.mode))

_BMI(s, instruction, data) == branch_if(s, s.cpu.N, instruction, data)

_BNE(s, instruction, data) == branch_if(s, ~s.cpu.Z, instruction, data)

_BPL(s, instruction, data) == branch_if(s, ~s.cpu.N, instruction, data)

\* _BRK without the line that clears the break flag after the push
_BRK_break_left_set(s, instruction, data) ==
    LET pc == s.cpu.PC + 2
        s1 == _stack_push([s EXCEPT !.cpu.PC = pc], (pc \div 256) % 256)
        s2 == _stack_push(s1, pc % 256)
        s3 == _stack_push(s2, status([s.cpu EXCEPT !.B = TRUE]))
        jump(s4) == IF Ok(s4) THEN [s4 EXCEPT !.cpu.jumped = TRUE] ELSE s4
    IN  jump(read_vector([s3 EXCEPT !.cpu.B = TRUE, !.cpu.I = TRUE], IRQ_BRK_VECTOR))

_BRK(s, instruction, data) ==
    LET pc == s.cpu.PC + 2
        s1 == _stack_push([s EXCEPT !.cpu.PC = pc], (pc \div 256) % 256)
        s2 == _stack_push(s1, pc % 256)
        s3 == _stack_push(s2, status([s.cpu EXCEPT !.B = TRUE]))
        jump(s4) == IF Ok(s4) THEN [s4 EXCEPT !.cpu.jumped = TRUE] ELSE s4
    IN  jump(read_vector([s3 EXCEPT !.cpu.B = FALSE, !.cpu.I = TRUE], IRQ_BRK_VECTOR))

_BVC(s, instruction, data) == branch_if(s, ~s.cpu.V, instruction, data)

_BVS(s, instruction, data) == branch_if(s, s.cpu.V, instruction, data)

_CLC(s, instruction, data) == [s EXCEPT !.cpu.C = FALSE]

_CLD(s, instruction, data) == [s EXCEPT !.cpu.D = FALSE]

_CLI(s, instruction, data) == [s EXCEPT !.cpu.I = FALSE]

_CLV(s, instruction, data) == [s EXCEPT !.cpu.V = FALSE]

\* the body shared by _CMP, _CPX and _CPY: reg is self.A, self.X or self.Y
compare(s, reg, instruction, data) ==
    LET flags(r) ==
            IF ~Ok(r) THEN r
            ELSE _setZN([r EXCEPT !.cpu.C = reg >= r.ret], reg - r.ret)
    IN  flags(_read_memory(s, data, instruction.mode))

_CMP(s, instruction, data) == compare(s, s.cpu.A, instruction, data)

_CPX(s, instruction, data) == compare(s, s.cpu.X, instruction, data)

_CPY(s, instruction, data) == compare(s, s.cpu.Y, instruction, data)

_DEC(s, instruction, data) ==
    LET flags(w, src) == IF Ok(w) THEN _setZN(w, src) ELSE w
        write(r, src) == flags(_write_memory(r, data, instruction.mode, src), src)
        change(r) == write(r, (r.ret - 1) % 256)
    IN  change(_read_memory(s, data, instruction.mode))

_DEX(s, instruction, data) ==
    _setZN([s EXCEPT !.cpu.X = (s.cpu.X - 1) % 256], (s.cpu.X - 1) % 256)

_DEY(s, instruction, data) ==
    _setZN([s EXCEPT !.cpu.Y = (s.cpu.Y - 1) % 256], (s.cpu.Y - 1) % 256)

_EOR(s, instruction, data) ==
    LET result(r, a) == IF ~Ok(r) THEN r ELSE _setZN([r EXCEPT !.cpu.A = a], a)
        combine(r) == result(r, BitXor(s.cpu.A, r.ret))
    IN  combine(_read_memory(s, data, instruction.mode))

_INC(s, instruction, data) ==
    LET flags(w, src) == IF Ok(w) THEN _setZN(w, src) ELSE w
        write(r, src) == flags(_write_memory(r, data, instruction.mode, src), src)
        change(r) == write(r, (r.ret + 1) % 256)
    IN  change(_read_memory(s, data, instruction.mode))

_INX(s, instruction, data) ==
    _setZN([s EXCEPT !.cpu.X = (s.cpu.X + 1) % 256], (s.cpu.X + 1) % 256)

_INY(s, instruction, data) ==
    _setZN([s EXCEPT !.cpu.Y = (s.cpu.Y + 1) % 256], (s.cpu.Y + 1) % 256)

_JMP(s, instruction, data) ==
    LET jump(r) == IF Ok(r) THEN [r EXCEPT !.cpu.PC = r.ret, !.cpu.jumped = TRUE] ELSE r
    IN  jump(_address_for_mode(s, data, instruction.mode))

\* _JSR pushing the low byte of the return address first
_JSR_low_first(s, instruction, data) ==
    LET pc == s.cpu.PC + 2
        s1 == _stack_push([s EXCEPT !.cpu.PC = pc], pc % 256)
        s2 == _stack_push(s1, (pc \div 256) % 256)
        jump(r) == [r EXCEPT !.cpu.PC = r.ret, !.cpu.jumped = TRUE]
    IN  jump(_address_for_mode(s2, data, instruction.mode))

_JSR(s, instruction, data) ==
    LET pc == s.cpu.PC + 2
        s1 == _stack_push([s EXCEPT !.cpu.PC = pc], (pc \div 256) % 256)
        s2 == _stack_push(s1, pc % 256)
        jump(r) == [r EXCEPT !.cpu.PC = r.ret, !.cpu.jumped = TRUE]
    IN  jump(_address_for_mode(s2, data, instruction.mode))

_LDA(s, instruction, data) ==
    LET load(r) == IF ~Ok(r) THEN r ELSE _setZN([r EXCEPT !.cpu.A = r.ret], r.ret)
    IN  load(_read_memory(s, data, instruction.mode))

_LDX(s, instruction, data) ==
    LET load(r) == IF ~Ok(r) THEN r ELSE _setZN([r EXCEPT !.cpu.X = r.ret], r.ret)
    IN  load(_read_memory(s, data, instruction.mode))

_LDY(s, instruction, data) ==
    LET load(r) == IF ~Ok(r) THEN r ELSE _setZN([r EXCEPT !.cpu.Y = r.ret], r.ret)
    IN  load(_read_memory(s, data, instruction.mode))

_LSR(s, instruction, data) ==
    LET result(r, src) ==
            IF ~Ok(r) THEN r
            ELSE store_result(_setZN([r EXCEPT !.cpu.C = BitAnd(r.ret, 1) # 0], src),
                              instruction, data, src)
        shift(r) == result(r, r.ret \div 2)
    IN  shift(operand_of(s, instruction, data))

_NOP(s, instruction, data) == s

_ORA(s, instruction, data) ==
    LET result(r, a) == IF ~Ok(r) THEN r ELSE _setZN([r EXCEPT !.cpu.A = a], a)
        combine(r) == result(r, BitOr(s.cpu.A, r.ret))
    IN  combine(_read_memory(s, data, instruction.mode))

_PHA(s, instruction, data) == _stack_push(s, s.cpu.A)

_PHP(s, instruction, data) ==
    [_stack_push(s, status([s.cpu EXCEPT !.B = TRUE])) EXCEPT !.cpu.B = FALSE]

_PLA(s, instruction, data) ==
    LET load(r) == _setZN([r EXCEPT !.cpu.A = r.ret], r.ret)
    IN  load(_stack_pop(s))

_PLP(s, instruction, data) ==
    LET load(r) == _set_status(r, r.ret)
    IN  load(_stack_pop(s))

_ROL(s, instruction, data) ==
    LET result(r, src) ==
            IF ~Ok(r) THEN r
            ELSE store_result(_setZN([r EXCEPT !.cpu.C = Bit(r.ret, 7) # 0], src),
                              instruction, data, src)
        shift(r) == result(r, BitAnd(BitOr(r.ret * 2, B2I(s.cpu.C)), 255))
    IN  shift(operand_of(s, instruction, data))

\* _ROR with the flags taken from the operand before the rotation
_ROR_stale_flags(s, instruction, data) ==
    LET result(r, src) ==
            IF ~Ok(r) THEN r
            ELSE store_result(_setZN([r EXCEPT !.cpu.C = BitAnd(r.ret, 1) # 0], r.ret),
                              instruction, data, src)
        shift(r) == result(r, BitAnd(BitOr(r.ret \div 2, B2I(s.cpu.C) * 128), 255))
    IN  shift(operand_of(s, instruction, data))

_ROR(s, instruction, data) ==
    LET result(r, src) ==
            IF ~Ok(r) THEN r
            ELSE store_result(_setZN([r EXCEPT !.cpu.C = BitAnd(r.ret, 1) # 0], src),
                              instruction, data, src)
        shift(r) == result(r, BitAnd(BitOr(r.ret \div 2, B2I(s.cpu.C) * 128), 255))
    IN  shift(operand_of(s, instruction, data))

_RTI(s, instruction, data) ==
    LET jump(lb, hb) ==
            [hb EXCEPT !.cpu.PC = BitOr(hb.ret * 256, lb.ret), !.cpu.jumped = TRUE]
        low(lb) == jump(lb, _stack_pop(lb))
        load(r) == low(_stack_pop(_set_status(r, r.ret)))
    IN  load(_stack_pop(s))

_RTS(s, instruction, data) ==
    LET jump(lb, hb) ==
            [hb EXCEPT !.cpu.PC = BitOr(hb.ret * 256, lb.ret) + 1, !.cpu.jumped = TRUE]
        low(lb) == jump(lb, _stack_pop(lb))
    IN  low(_stack_pop(s))

\* _SBC with carry set only for a result above zero
_SBC_strict_carry(s, instruction, data) ==
    LET result(r) ==
            LET src == r.ret
                signed_result == s.cpu.A - src - (1 - B2I(s.cpu.C))
                a == (s.cpu.A - src - (1 - B2I(s.cpu.C))) % 256
            IN  IF ~Ok(r) THEN r
                ELSE _setZN([r EXCEPT
                         !.cpu.V = (Bit(s.cpu.A, 7) # Bit(src, 7))
                                   /\ (Bit(s.cpu.A, 7) # Bit(signed_result, 7)),
                         !.cpu.A = a,
                         !.cpu.C = signed_result > 0], a)
    IN  result(_read_memory(s, data, instruction.mode))

_SBC(s, instruction, data) ==
    LET result(r) ==
            LET src == r.ret
                signed_result == s.cpu.A - src - (1 - B2I(s.cpu.C))
                a == (s.cpu.A - src - (1 - B2I(s.cpu.C))) % 256
            IN  IF ~Ok(r) THEN r
                ELSE _setZN([r EXCEPT
                         !.cpu.V = (Bit(s.cpu.A, 7) # Bit(src, 7))
                                   /\ (Bit(s.cpu.A, 7) # Bit(signed_result, 7)),
                         !.cpu.A = a,
                         !.cpu.C = ~(signed_result < 0)], a)
    IN  result(_read_memory(s, data, instruction.mode))

_SEC(s, instruction, data) == [s EXCEPT !.cpu.C = TRUE]

_SED(s, instruction, data) == [s EXCEPT !.cpu.D = TRUE]

_SEI(s, instruction, data) == [s EXCEPT !.cpu.I = TRUE]

_STA(s, instruction, data) == _write_memory(s, data, instruction.mode, s.cpu.A)

_STX(s, instruction, data) == _write_memory(s, data, instruction.mode, s.cpu.X)

_STY(s, instruction, data) == _write_memory(s, data, instruction.mode, s.cpu.Y)

_TAX(s, instruction, data) == _setZN([s EXCEPT !.cpu.X = s.cpu.A], s.cpu.A)

_TAY(s, instruction, data) == _setZN([s EXCEPT !.cpu.Y = s.cpu.A], s.cpu.A)

_TSX(s, instruction, data) == _setZN([s EXCEPT !.cpu.X = s.cpu.SP], s.cpu.SP)

_TXA(s, instruction, data) == _setZN([s EXCEPT !.cpu.A = s.cpu.X], s.cpu.X)

_TXS(s, instruction, data) == [s EXCEPT !.cpu.SP = s.cpu.X]

_TYA(s, instruction, data) == _setZN([s EXCEPT !.cpu.A = s.cpu.Y], s.cpu.Y)

_noimpl(s, instruction, data) == s

\* instruction.method(instruction, data)
method(s, instruction, data) ==
    LET m == instruction.method
    IN  CASE m = "_ADC" -> _ADC(s, instruction, data)
          [] m = "_AND" -> _AND(s, instruction, data)
          [] m = "_ASL" -> _ASL(s, instruction, data)
          [] m = "_BCC" -> _BCC(s, instruction, data)
          [] m = "_BCS" -> _BCS(s, instruction, data)
          [] m = "_BEQ" -> _BEQ(s, instruction, data)
          [] m = "_BIT" -> _BIT(s, instruction, data)
          [] m = "_BMI" -> _BMI(s, instruction, data)
          [] m = "_BNE" -> _BNE(s, instruction, data)
          [] m = "_BPL" -> _BPL(s, instruction, data)
          [] m = "_BRK" -> _BRK(s, instruction, data)
          [] m = "_BVC" -> _BVC(s, instruction, data)
          [] m = "_BVS" -> _BVS(s, instruction, data)
          [] m = "_CLC" -> _CLC(s, instruction, data)
          [] m = "_CLD" -> _CLD(s, instruction, data)
          [] m = "_CLI" -> _CLI(s, instruction, data)
          [] m = "_CLV" -> _CLV(s, instruction, data)
          [] m = "_CMP" -> _CMP(s, instruction, data)
          [] m = "_CPX" -> _CPX(s, instruction, data)
          [] m = "_CPY" -> _CPY(s, instruction, data)
          [] m = "_DEC" -> _DEC(s, instruction, data)
          [] m = "_DEX" -> _DEX(s, instruction, data)
          [] m = "_DEY" -> _DEY(s, instruction, data)
          [] m = "_EOR" -> _EOR(s, instruction, data)
          [] m = "_INC" -> _INC(s, instruction, data)
          [] m = "_INX" -> _INX(s, instruction, data)
          [] m = "_INY" -> _INY(s, instruction, data)
          [] m = "_JMP" -> _JMP(s, instruction, data)
          [] m = "_JSR" -> _JSR(s, instruction, data)
          [] m = "_LDA" -> _LDA(s, instruction, data)
          [] m = "_LDX" -> _LDX(s, instruction, data)
          [] m = "_LDY" -> _LDY(s, instruction, data)
          [] m = "_LSR" -> _LSR(s, instruction, data)
          [] m = "_NOP" -> _NOP(s, instruction, data)
          [] m = "_ORA" -> _ORA(s, instruction, data)
          [] m = "_PHA" -> _PHA(s, instruction, data)
          [] m = "_PHP" -> _PHP(s, instruction, data)
          [] m = "_PLA" -> _PLA(s, instruction, data)
          [] m = "_PLP" -> _PLP(s, instruction, data)
          [] m = "_ROL" -> _ROL(s, instruction, data)
          [] m = "_ROR" -> _ROR(s, instruction, data)
          [] m = "_RTI" -> _RTI(s, instruction, data)
          [] m = "_RTS" -> _RTS(s, instruction, data)
          [] m = "_SBC" -> _SBC(s, instruction, data)
          [] m = "_SEC" -> _SEC(s, instruction, data)
          [] m = "_SED" -> _SED(s, instruction, data)
          [] m = "_SEI" -> _SEI(s, instruction, data)
          [] m = "_STA" -> _STA(s, instruction, data)
          [] m = "_STX" -> _STX(s, instruction, data)
          [] m = "_STY" -> _STY(s, instruction, data)
          [] m = "_TAX" -> _TAX(s, instruction, data)
          [] m = "_TAY" -> _TAY(s, instruction, data)
          [] m = "_TSX" -> _TSX(s, instruction, data)
          [] m = "_TXA" -> _TXA(s, instruction, data)
          [] m = "_TXS" -> _TXS(s, instruction, data)
          [] m = "_TYA" -> _TYA(s, instruction, data)
          [] OTHER -> _noimpl(s, instruction, data)

---------------------------------------------------------------------------
(* cpu.py: CPU.step *)

step_cost(s3, instruction) ==
    IF s3.cpu.page_crossed
    THEN [s3 EXCEPT !.cpu.cpu_ticks = @ + instruction.page_ticks]
    ELSE s3

\* step, after the instruction's method has returned h: PC and tick accounting
step_advance(h, instruction) ==
    IF ~Ok(h) THEN h
    ELSE step_cost(IF ~h.cpu.jumped
                   THEN [h EXCEPT !.cpu.PC = @ + instruction.length,
                                  !.cpu.cpu_ticks = @ + instruction.ticks]
                   ELSE IF instruction.type \in BRANCH_INSTRUCTIONS
                   THEN [h EXCEPT !.cpu.cpu_ticks = @ + 1 + instruction.ticks]
                   ELSE [h EXCEPT !.cpu.cpu_ticks = @ + instruction.ticks],
                   instruction)

\* step, the data word: r1 holds the low byte, the high byte is read when the
\* instruction is three bytes long
step_data_high(r1, PC, length) ==
    LET join(r2) == Return(r2, BitOr(r1.ret, r2.ret * 256))
    IN  join(IF length > 2
             THEN _read_memory(r1, PC + 2, "ABSOLUTE") ELSE Return(r1, 0))

\* step, the data word of the instruction at PC
step_data(s1, PC, length) ==
    step_data_high(IF length > 1
                   THEN _read_memory(s1, PC + 1, "ABSOLUTE") ELSE Return(s1, 0),
                   PC, length)

\* step, the call of the instruction's method on the data word held in r
step_execute(r, opcode, instruction) ==
    step_advance(method([r EXCEPT !.opcode = opcode, !.data = r.ret],
                        instruction, r.ret),
                 instruction)

\* step, once the opcode byte has been read into f
step_decode(f, PC) ==
    IF ~Ok(f) THEN f
    ELSE step_execute(step_data([f EXCEPT !.cpu.page_crossed = FALSE,
                                          !.cpu.jumped = FALSE],
                                PC, instructions[f.ret + 1].length),
                      f.ret, instructions[f.ret + 1])

\* step taking two off the stall counter in an idle cycle
step_idle_by_two(s) ==
    IF s.cpu.stall > 0
    THEN [s EXCEPT !.cpu.stall = @ - 2, !.cpu.cpu_ticks = @ + 1]
    ELSE step_decode(_read_memory(s, s.cpu.PC, "ABSOLUTE"), s.cpu.PC)

\* CPU.step: one stall tick, or one instruction
step(s) ==
    IF s.cpu.stall > 0
    THEN [s EXCEPT !.cpu.stall = @ - 1, !.cpu.cpu_ticks = @ + 1]
    ELSE step_decode(_read_memory(s, s.cpu.PC, "ABSOLUTE"), s.cpu.PC)

---------------------------------------------------------------------------
(* Construction *)

\* CPU.__init__, PC being the word read at the reset vector; pc is the attribute
\* _BEQ creates, -1 while it does not exist
new_cpu(PC) ==
    [A |-> 0, X |-> 0, Y |-> 0, SP |-> STACK_POINTER_RESET, PC |-> PC, pc |-> -1,
     C |-> FALSE, Z |-> FALSE, I |-> TRUE, D |-> FALSE, B |-> FALSE, V |-> FALSE,
     N |-> FALSE, jumped |-> FALSE, page_crossed |-> FALSE, cpu_ticks |-> 0,
     stall |-> 0]

\* Joypad()
new_joypad ==
    [strobe |-> FALSE, read_count |-> 0, a |-> FALSE, b |-> FALSE,
     select |-> FALSE, start |-> FALSE, up |-> FALSE, down |-> FALSE,
     left |-> FALSE, right |-> FALSE]

\* PPU.__init__
new_ppu ==
    [spr |-> <<>>, nametables |-> <<>>, palette |-> <<>>,
     addr |-> 0, addr_write_latch |-> FALSE, status |-> 0, spr_addr |-> 0,
     nametable_addr |-> 0, addr_increment |-> 1, spr_pattern_table_addr |-> 0,
     bg_pattern_table_addr |-> 0, generate_nmi |-> FALSE,
     show_background |-> FALSE, show_sprites |-> FALSE,
     left_8_sprite_show |-> FALSE, left_8_background_show |-> FALSE,
     buffer2007 |-> 0, scanline |-> 0, cycle |-> 0]

\* ROM.__init__ of a one-bank image whose program ROM is prg (zero elsewhere)
new_rom(prg) ==
    [prg_rom_size |-> 1, chr_rom_size |-> 1, prg_rom |-> prg, chr_rom |-> <<>>,
     prg_ram |-> <<>>, vertical_mirroring |-> FALSE]

NoWrite == [addr |-> -1, val |-> 0]

\* the objects as one machine
Machine ==
    [cpu |-> cpu, ram |-> ram, ppu |-> ppu, rom |-> rom, joypad1 |-> joypad1,
     err |-> err, ret |-> 0, wr |-> NoWrite, opcode |-> -1, data |-> 0]

\* the machine after a call becomes the next state
Becomes(r) ==
    /\ cpu' = r.cpu
    /\ ram' = r.ram
    /\ ppu' = r.ppu
    /\ rom' = r.rom
    /\ joypad1' = r.joypad1
    /\ err' = r.err

---------------------------------------------------------------------------
(* Bounds and inputs *)

MaxSteps == 2

MaxDepth == 3

\* operand words a program carries: RAM and its mirrors, the stack page, picture
\* unit registers, the I/O ports, cartridge RAM and ROM
OperandWords ==
    {0, 2, 128, 255, 511, 2047, 8194, 8199, 16383, 16404, 16406, 24576, 65535}

\* what a running program can have left behind: A, X, Y, the flags C, Z, V, N
\* and the RAM contents (all zero, or pointers and data)
Contexts ==
    LET image == (0 :> 255) @@ (1 :> 1) @@ (2 :> 128) @@ (3 :> 255) @@ (128 :> 127)
                    @@ (255 :> 240) @@ (256 :> 3) @@ (511 :> 1) @@ (2047 :> 129)
    IN  {<<0, 0, 0, FALSE, FALSE, FALSE, FALSE, <<>>>>,
         <<128, 1, 255, TRUE, TRUE, TRUE, TRUE, image>>,
         <<255, 255, 1, TRUE, FALSE, TRUE, FALSE, image>>,
         <<127, 2, 128, FALSE, TRUE, FALSE, TRUE, <<>>>>}

\* a program ROM holding one instruction at 0x8000, the reset vector pointing at it
\* and the NMI and IRQ/BRK vectors pointing at 0x8003
Program(opcode, word) ==
    LET prg == (0 :> opcode) @@ (1 :> word % 256) @@ (2 :> word \div 256)
                  @@ (16378 :> 3) @@ (16379 :> 128) @@ (16380 :> 0) @@ (16381 :> 128)
                  @@ (16382 :> 3) @@ (16383 :> 128)
    IN  [i \in {j \in DOMAIN prg : prg[j] # 0} |-> prg[i]]

\* no step taken yet
NoStep ==
    [n |-> 0, opcode |-> -1, data |-> 0, pre |-> cpu, ram |-> ram, wr |-> NoWrite,
     stalled |-> FALSE]

\* no stack operation applied yet
NoStack ==
    [n |-> 0, limit |-> MaxDepth, sp0 |-> cpu.SP, pushed |-> <<>>, expect |-> -1,
     got |-> -1, op |-> "none", prev |-> "none", saved |-> cpu]

\* the state after construction from the image, with the registers, flags and RAM
\* as the program running so far left them
InitWith(opcode, word, A, X, Y, SP, C, Z, I, D, V, N, image) ==
    /\ rom = new_rom(Program(opcode, word))
    /\ ppu = new_ppu
    /\ joypad1 = new_joypad
    /\ ram = image
    /\ err = "none"
    /\ cpu = [new_cpu(32768) EXCEPT !.A = A, !.X = X, !.Y = Y, !.SP = SP, !.C = C,
                                    !.Z = Z, !.I = I, !.D = D, !.V = V, !.N = N]
    /\ interpreter = <<>>
    /\ last = NoStep

Init ==
    \E opcode \in 0..255, word \in OperandWords, c \in Contexts :
        InitWith(opcode, word, c[1], c[2], c[3], STACK_POINTER_RESET,
                 c[4], c[5], TRUE, FALSE, c[6], c[7], c[8])
        /\ stk = NoStack

\* one call of CPU.step
Step ==
    /\ UNCHANGED interpreter
    /\ err = "none"
    /\ last.n < MaxSteps
    /\ LET done(r) ==
               /\ Becomes(r)
               /\ last' = [n |-> last.n + 1, opcode |-> r.opcode, data |-> r.data,
                           pre |-> cpu, ram |-> ram, wr |-> r.wr,
                           stalled |-> cpu.stall > 0]
       IN  done(step(Machine))
    /\ UNCHANGED stk

Next == Step

Spec == Init /\ [][Next]_vars

---------------------------------------------------------------------------
(* The arithmetic and compare instructions on every register value *)

\* ADC, SBC, CMP, CPX, CPY with an immediate operand
ALUOpcodes == {105, 233, 201, 224, 192}

ALUOperands == {0, 1, 16, 64, 127, 128, 129, 192, 240, 255}

InitALU ==
    \E opcode \in ALUOpcodes, R \in 0..255, M \in ALUOperands, C \in BOOLEAN :
        InitWith(opcode, M, R, R, R, STACK_POINTER_RESET,
                 C, FALSE, TRUE, FALSE, FALSE, FALSE, <<>>)
        /\ stk = NoStack

SpecALU == InitALU /\ [][Next]_vars

---------------------------------------------------------------------------
(* The stack helpers, from every stack pointer *)

PushBytes == {90, 165}

\* the stack page
StackPage == 256..511

\* the stack pointers from which the whole page is filled
DeepStarts == {STACK_POINTER_RESET, 0}

\* the byte pushed at depth d when the whole page is filled
DeepByte(d) == (37 * d + 11) % 256

\* pushes of at most MaxDepth bytes of PushBytes from every stack pointer, in any
\* interleaving with pops, and from DeepStarts the whole page filled and then emptied
InitStack ==
    \E SP \in 0..255, limit \in {MaxDepth, Cardinality(StackPage)} :
        /\ limit > MaxDepth => SP \in DeepStarts
        /\ InitWith(234, 0, 0, 0, 0, SP, FALSE, FALSE, TRUE, FALSE, FALSE, FALSE, <<>>)
        /\ stk = [NoStack EXCEPT !.limit = limit]

\* CPU._stack_push(v)
StackPush(v) ==
    /\ UNCHANGED interpreter
    /\ Len(stk.pushed) < stk.limit
    /\ IF stk.limit > MaxDepth
       THEN v = DeepByte(Len(stk.pushed)) /\ stk.op # "pop"
       ELSE v \in PushBytes
    /\ Becomes(_stack_push(Machine, v))
    /\ stk' = [stk EXCEPT !.pushed = Append(@, v), !.op = "push", !.prev = stk.op]
    /\ UNCHANGED last

\* CPU._stack_pop()
StackPop ==
    /\ UNCHANGED interpreter
    /\ Len(stk.pushed) > 0
    /\ stk.limit > MaxDepth => Len(stk.pushed) = stk.limit \/ stk.op = "pop"
    /\ LET done(r) ==
               /\ Becomes(r)
               /\ stk' = [stk EXCEPT !.pushed = SubSeq(@, 1, Len(@) - 1),
                                     !.expect = stk.pushed[Len(stk.pushed)],
                                     !.got = r.ret, !.op = "pop", !.prev = stk.op]
       IN  done(_stack_pop(Machine))
    /\ UNCHANGED last

NextStack == (\E v \in 0..255 : StackPush(v)) \/ StackPop

SpecStack == InitStack /\ [][NextStack]_vars

---------------------------------------------------------------------------
(* The status byte through PHP, PLP, an interrupt and RTI, from every flag setting *)

MaxOps == 3

StatusBytes == {74, 181}

InitStatus ==
    \E SP \in {1, STACK_POINTER_RESET}, A \in StatusBytes, C \in BOOLEAN, Z \in BOOLEAN,
       I \in BOOLEAN, D \in BOOLEAN, V \in BOOLEAN, N \in BOOLEAN :
        InitWith(234, 0, A, 0, 0, SP, C, Z, I, D, V, N, <<>>) /\ stk = NoStack

\* what a stack operation leaves in the record of the operations so far
Pushes(r, k, op) ==
    [stk EXCEPT !.pushed = @ \o [i \in 1..k |-> Get(r.ram, 256 + ((cpu.SP - (i - 1)) % 256))],
                !.op = op, !.prev = stk.op, !.saved = cpu, !.n = @ + 1]

Pops(r, k, op) ==
    [stk EXCEPT !.pushed = SubSeq(@, 1, Len(@) - k),
                !.expect = stk.pushed[Len(stk.pushed)],
                !.got = Get(ram, 256 + ((cpu.SP + 1) % 256)),
                !.op = op, !.prev = stk.op, !.n = @ + 1]

\* CPU._PHP
PHP ==
    /\ UNCHANGED interpreter
    /\ stk.n < MaxOps
    /\ LET done(r) == Becomes(r) /\ stk' = Pushes(r, 1, "PHP")
       IN  done(_PHP(Machine, instructions[8 + 1], 0))
    /\ UNCHANGED last

\* CPU._PHA
PHA ==
    /\ UNCHANGED interpreter
    /\ stk.n < MaxOps
    /\ LET done(r) == Becomes(r) /\ stk' = Pushes(r, 1, "PHA")
       IN  done(_PHA(Machine, instructions[72 + 1], 0))
    /\ UNCHANGED last

\* CPU._PLP
PLP ==
    /\ UNCHANGED interpreter
    /\ stk.n < MaxOps
    /\ Len(stk.pushed) > 0
    /\ LET done(r) == Becomes(r) /\ stk' = Pops(r, 1, "PLP")
       IN  done(_PLP(Machine, instructions[40 + 1], 0))
    /\ UNCHANGED last

\* CPU.trigger_NMI
NMI ==
    /\ UNCHANGED interpreter
    /\ stk.n < MaxOps
    /\ LET done(r) == Becomes(r) /\ stk' = Pushes(r, 3, "NMI")
       IN  done(trigger_NMI(Machine))
    /\ UNCHANGED last

\* CPU._RTI
RTI ==
    /\ UNCHANGED interpreter
    /\ stk.n < MaxOps
    /\ Len(stk.pushed) > 2
    /\ LET done(r) == Becomes(r) /\ stk' = Pops(r, 3, "RTI")
       IN  done(_RTI(Machine, instructions[64 + 1], 0))
    /\ UNCHANGED last

\* CPU._BRK
BRK ==
    /\ UNCHANGED interpreter
    /\ stk.n < MaxOps
    /\ LET done(r) == Becomes(r) /\ stk' = Pushes(r, 3, "BRK")
       IN  done(_BRK(Machine, instructions[0 + 1], 0))
    /\ UNCHANGED last

NextStatus == PHP \/ PHA \/ PLP \/ NMI \/ RTI \/ BRK

SpecStatus == InitStatus /\ [][NextStatus]_vars


---------------------------------------------------------------------------
(* The CPU's memory map: reads and writes at chosen addresses *)

MaxBus == 2

\* the console as a program left it: data in RAM, the picture unit's status as its
\* steps set it (nothing, vblank, vblank after the pre-render line), and possibly
\* one byte already written to 0x2006
InitBus ==
    \E flags \in {0, 128, 159}, half \in BOOLEAN :
        LET built == [cpu |-> new_cpu(32768),
                      ram |-> (0 :> 255) @@ (1 :> 17) @@ (256 :> 3) @@ (1792 :> 36)
                                 @@ (2047 :> 129),
                      ppu |-> [new_ppu EXCEPT !.status = flags],
                      rom |-> new_rom(Program(234, 0)), joypad1 |-> new_joypad,
                      err |-> "none", ret |-> 0, wr |-> NoWrite, opcode |-> -1,
                      data |-> 0]
            left(r) ==
                /\ cpu = r.cpu /\ ram = r.ram /\ ppu = r.ppu /\ rom = r.rom
                /\ joypad1 = r.joypad1 /\ err = r.err
                /\ last = [n |-> 0, op |-> "none", addr |-> -1, val |-> 0, ret |-> 0,
                           before |-> r, prev |-> "none", prev_addr |-> -1]
                /\ interpreter = <<>>
                /\ stk = NoStack
        IN  left(IF half THEN write_register(built, 8198, 63) ELSE built)

\* CPU._read_memory(a, MemMode.ABSOLUTE) with a in RAM and its mirrors, the picture
\* unit's registers and their mirrors, and the joypad port
BusRead ==
    /\ UNCHANGED interpreter
    /\ err = "none"
    /\ last.n < MaxBus
    /\ \E a \in {1, 2047, 2049, 8191, 8192, 8194, 8196, 8199, 16378, 16383, 16406} :
          LET done(r) ==
                  /\ Becomes(r)
                  /\ last' = [n |-> last.n + 1, op |-> "read", addr |-> a, val |-> 0,
                              ret |-> r.ret, before |-> Machine, prev |-> last.op,
                              prev_addr |-> last.addr]
          IN  done(_read_memory(Machine, a, "ABSOLUTE"))
    /\ UNCHANGED stk

\* CPU._write_memory(a, MemMode.ABSOLUTE, v) with a in RAM and its mirrors and the
\* picture unit's registers and their mirrors, and with a = 0x4014 and v a page of
\* RAM, of the picture unit's registers, or of the cartridge
BusWrite ==
    /\ UNCHANGED interpreter
    /\ err = "none"
    /\ last.n < MaxBus
    /\ \E a \in {1, 2049, 8191, 8195, 8198, 8199, 16382, 16383, 16404} :
       \E v \in IF a = 16404 THEN {0, 7, 32, 255} ELSE {33, 165} :
          LET done(r) ==
                  /\ Becomes(r)
                  /\ last' = [n |-> last.n + 1, op |-> "write", addr |-> a, val |-> v,
                              ret |-> 0, before |-> Machine, prev |-> last.op,
                              prev_addr |-> last.addr]
          IN  done(_write_memory(Machine, a, "ABSOLUTE", v))
    /\ UNCHANGED stk

SpecBus == InitBus /\ [][BusRead \/ BusWrite]_vars

---------------------------------------------------------------------------
(* A sprite DMA and the steps that follow it *)

\* the store that starts the DMA, the idle steps, and the instruction after them
MaxRun == 514

\* STA $4014 at the reset address, A holding a page of RAM or of the cartridge
InitDMA ==
    \E A \in {0, 7, 255}, c \in Contexts :
        /\ InitWith(141, 16404, A, c[2], c[3], STACK_POINTER_RESET,
                    c[4], c[5], TRUE, FALSE, c[6], c[7], c[8])
        /\ stk = [NoStack EXCEPT !.saved = Machine]

\* one call of CPU.step in the run
Run ==
    /\ UNCHANGED interpreter
    /\ err = "none"
    /\ last.n < MaxRun
    /\ LET done(r) ==
               /\ Becomes(r)
               /\ last' = [n |-> last.n + 1, opcode |-> r.opcode, data |-> r.data,
                           pre |-> cpu, ram |-> ram, wr |-> r.wr,
                           stalled |-> cpu.stall > 0]
               /\ stk' = [stk EXCEPT !.saved = Machine]
       IN  done(step(Machine))

SpecDMA == InitDMA /\ [][Run]_vars

---------------------------------------------------------------------------
(* The picture unit stepping through its frames *)

\* the picture unit at the start of a frame, or where its steps have taken it
\* before a program's write to 0x2001 (scanline, cycle and the status reached):
\* just before the frame is drawn, before vblank starts, before the pre-render line
InitPPU ==
    \E at \in {<<0, 0, 0>>, <<240, 250, 0>>, <<241, 0, 0>>, <<260, 340, 128>>},
       control \in {0, 8, 16} :
        LET built == [cpu |-> new_cpu(32768), ram |-> <<>>,
                      ppu |-> [new_ppu EXCEPT !.scanline = at[1], !.cycle = at[2],
                                              !.status = at[3]],
                      rom |-> new_rom(Program(234, 0)), joypad1 |-> new_joypad,
                      err |-> "none", ret |-> 0, wr |-> NoWrite, opcode |-> -1,
                      data |-> 0]
            left(r) ==
                /\ cpu = r.cpu /\ ram = r.ram /\ ppu = r.ppu /\ rom = r.rom
                /\ joypad1 = r.joypad1 /\ err = r.err
                /\ last = [n |-> 0, before |-> r.ppu]
                /\ interpreter = <<>>
                /\ stk = NoStack
        IN  left(write_register(built, 8193, control))

\* one call of PPU.step
PPUStep ==
    /\ UNCHANGED interpreter
    /\ err = "none"
    /\ LET done(r) == Becomes(r) /\ last' = [n |-> 1, before |-> ppu]
       IN  done(ppu_step(Machine))
    /\ UNCHANGED stk

SpecPPU == InitPPU /\ [][PPUStep]_vars

---------------------------------------------------------------------------
(* The picture unit's registers: reads and writes in any order *)

MaxRegs == 3

\* the picture unit as a program left it: bytes stored in the nametables and the
\* palette, the address registers back at 0, the latch cleared, and the increment
\* chosen by a write to 0x2000; the cartridge mirrors horizontally or vertically
InitRegs ==
    \E control \in {0, 4}, vertical \in BOOLEAN :
        LET cells == {768, 769, 800, 803, 831, 1023, 1792, 1793, 1824, 1827, 1855,
                      2047}
            built == [cpu |-> new_cpu(32768), ram |-> <<>>,
                      ppu |-> [new_ppu EXCEPT
                                  !.nametables = [i \in cells |-> (i % 251) + 1],
                                  !.palette = [i \in (0 .. 31) \ {16, 20, 24, 28}
                                                  |-> (2 * i) + 1]],
                      rom |-> [new_rom(Program(234, 0))
                                  EXCEPT !.vertical_mirroring = vertical],
                      joypad1 |-> new_joypad,
                      err |-> "none", ret |-> 0, wr |-> NoWrite, opcode |-> -1,
                      data |-> 0]
            left(r) ==
                /\ cpu = r.cpu /\ ram = r.ram /\ ppu = r.ppu /\ rom = r.rom
                /\ joypad1 = r.joypad1 /\ err = r.err
                /\ last = [n |-> 0, op |-> "none", addr |-> -1, val |-> 0, ret |-> 0,
                           before |-> r, prev |-> "none", prev_addr |-> -1,
                           prev_val |-> 0, writes |-> 0]
                /\ interpreter = <<>>
                /\ stk = NoStack
        IN  left(write_register(built, 8192, control))

\* PPU.read_register(a) for the three registers that can be read; last.writes
\* counts the writes to 0x2006 since the last read of the status register
RegRead ==
    /\ UNCHANGED interpreter
    /\ err = "none"
    /\ last.n < MaxRegs
    /\ \E a \in {8194, 8196, 8199} :
          LET done(r) ==
                  /\ Becomes(r)
                  /\ last' = [n |-> last.n + 1, op |-> "read", addr |-> a, val |-> 0,
                              ret |-> r.ret, before |-> Machine, prev |-> last.op,
                              prev_addr |-> last.addr, prev_val |-> last.val,
                              writes |-> IF a = 8194 THEN 0 ELSE last.writes]
          IN  done(read_register(Machine, a))
    /\ UNCHANGED stk

\* PPU.write_register(a, v) for each of the eight registers
RegWrite ==
    /\ UNCHANGED interpreter
    /\ err = "none"
    /\ last.n < MaxRegs
    /\ \E a \in 8192 .. 8199 :
       \E v \in IF a = 8198 THEN {35, 63, 255} ELSE {4, 255} :
          LET done(r) ==
                  /\ Becomes(r)
                  /\ last' = [n |-> last.n + 1, op |-> "write", addr |-> a, val |-> v,
                              ret |-> 0, before |-> Machine, prev |-> last.op,
                              prev_addr |-> last.addr, prev_val |-> last.val,
                              writes |-> IF a = 8198 THEN last.writes + 1
                                         ELSE last.writes]
          IN  done(write_register(Machine, a, v))
    /\ UNCHANGED stk

SpecRegs == InitRegs /\ [][RegRead \/ RegWrite]_vars

---------------------------------------------------------------------------
(* The picture unit's own memory: reads and writes at chosen addresses *)

MaxMem == 2

\* the picture unit with bytes already stored in the nametables and the palette,
\* on a cartridge that mirrors horizontally or vertically
InitVRAM ==
    \E vertical \in BOOLEAN :
        /\ cpu = new_cpu(32768)
        /\ ram = <<>>
        /\ ppu = [new_ppu EXCEPT
                     !.nametables = [i \in {0, 767, 1023, 1024, 1791, 2047}
                                        |-> (i % 251) + 1],
                     !.palette = [i \in (0 .. 31) \ {16, 20, 24, 28} |-> (2 * i) + 1]]
        /\ rom = [new_rom(Program(234, 0)) EXCEPT !.vertical_mirroring = vertical]
        /\ joypad1 = new_joypad
        /\ err = "none"
        /\ last = [n |-> 0, op |-> "none", addr |-> -1, val |-> 0, ret |-> 0,
                   before |-> ppu, prev |-> "none", prev_addr |-> -1, prev_val |-> 0]
        /\ interpreter = <<>>
        /\ stk = NoStack

\* PPU._read_memory(a): a in the pattern tables, at both ends of each
\* 0x400 block of 0x2000..0x3EFF, in the palette and its mirrors, or above 0x4000
MemRead ==
    /\ UNCHANGED interpreter
    /\ err = "none"
    /\ last.n < MaxMem
    /\ \E a \in {0, 24576, 32528}
                \cup {b + k : b \in {8192, 9216, 10240, 11264, 12288, 13312, 14336},
                              k \in {0, 1023}}
                \cup {15360, 16127}
                \cup {16128 + k : k \in {0, 1, 4, 12, 16, 17, 20, 28, 31, 32, 255}} :
          LET done(r) ==
                  /\ Becomes(r)
                  /\ last' = [n |-> last.n + 1, op |-> "read", addr |-> a, val |-> 0,
                              ret |-> r.ret, before |-> ppu, prev |-> last.op,
                              prev_addr |-> last.addr, prev_val |-> last.val]
          IN  done(ppu_read_memory(Machine, a))
    /\ UNCHANGED stk

\* PPU._write_memory(a, v) at the same addresses
MemWrite ==
    /\ UNCHANGED interpreter
    /\ err = "none"
    /\ last.n < MaxMem
    /\ \E a \in {0, 24576, 32528}
                \cup {b + k : b \in {8192, 9216, 10240, 11264, 12288, 13312, 14336},
                              k \in {0, 1023}}
                \cup {15360, 16127}
                \cup {16128 + k : k \in {0, 1, 4, 12, 16, 17, 20, 28, 31, 32, 255}} :
       \E v \in {33, 165} :
          LET done(r) ==
                  /\ Becomes(r)
                  /\ last' = [n |-> last.n + 1, op |-> "write", addr |-> a, val |-> v,
                              ret |-> 0, before |-> ppu, prev |-> last.op,
                              prev_addr |-> last.addr, prev_val |-> last.val]
          IN  done(ppu_write_memory(Machine, a, v))
    /\ UNCHANGED stk

SpecVRAM == InitVRAM /\ [][MemRead \/ MemWrite]_vars

---------------------------------------------------------------------------
(* The cartridge: construction from an image, then reads and writes *)

MaxCart == 2

\* ROM(rom_file) for images of one or two 16KB units of program ROM and one 8KB unit
\* of graphics ROM (what the class assumes of a mapper-0 cartridge), with the
\* signature right or wrong, the mirroring, trainer and mapper bits of flags 6 and 7
\* set or clear, and for a file that ends inside its header
InitROM ==
    \E h \in ({<<78, 69, 83, 26>>} \X {1, 2} \X {0, 1, 4, 5, 16, 17} \X {0, 16})
             \cup ({<<78, 69, 83, 0>>, <<0, 0, 0, 0>>} \X {1, 2} \X {0} \X {0}),
       short \in BOOLEAN :
        LET body == [i \in {0, 1, 511, 512, 513, 16383, 16384, 16385, 16895, 16896,
                            24575, 24576, 25087, 25088, 32767, 32768, 33279, 33280,
                            40959, 40960, 41471} |-> (i % 251) + 1]
            rom_file == [header |-> IF short THEN h[1]
                                    ELSE h[1] \o <<h[2], 1, h[3], h[4],
                                                   0, 0, 0, 0, 0, 0, 0, 0>>,
                         body |-> IF short THEN <<>> ELSE body]
            made(r) ==
                /\ rom = r.rom
                /\ err = r.err
                /\ last = [n |-> 0, op |-> "none", addr |-> -1, val |-> 0, ret |-> 0,
                           before |-> r.rom, prev |-> "none", prev_addr |-> -1,
                           prev_ret |-> 0, rom_file |-> rom_file,
                           signature |-> r.signature, mapper |-> r.mapper,
                           has_trainer |-> r.has_trainer, printed |-> r.printed]
        IN  /\ (short => h[2] = 1 /\ h[3] = 0 /\ h[4] = 0 /\ h[1][4] = 26)
            /\ made(ROM(rom_file))
            /\ cpu = new_cpu(0)
            /\ ram = <<>>
            /\ ppu = new_ppu
            /\ joypad1 = new_joypad
            /\ interpreter = <<>>
            /\ stk = NoStack

\* rom.read_cartridge(a) with a in the graphics ROM, the unmapped range, the RAM and
\* both halves of the program ROM
CartRead ==
    /\ UNCHANGED interpreter
    /\ err = "none"
    /\ last.n < MaxCart
    /\ \E a \in {0, 1, 8191, 8192, 24575, 24576, 32767, 32768, 32769, 49151, 49152,
                 49153, 65535} :
          LET done(r) ==
                  /\ Becomes(r)
                  /\ last' = [last EXCEPT !.n = @ + 1, !.op = "read", !.addr = a,
                                          !.val = 0, !.ret = r.ret, !.before = rom,
                                          !.prev = last.op, !.prev_addr = last.addr,
                                          !.prev_ret = last.ret]
          IN  done(_read_mapper0(Machine, a))
    /\ UNCHANGED stk

\* rom.write_cartridge(a, v) in the same ranges
CartWrite ==
    /\ UNCHANGED interpreter
    /\ err = "none"
    /\ last.n < MaxCart
    /\ \E a \in {0, 8191, 8192, 24575, 24576, 24577, 32767, 32768, 65535} :
       \E v \in {33, 165} :
          LET done(r) ==
                  /\ Becomes(r)
                  /\ last' = [last EXCEPT !.n = @ + 1, !.op = "write", !.addr = a,
                                          !.val = v, !.ret = 0, !.before = rom,
                                          !.prev = last.op, !.prev_addr = last.addr,
                                          !.prev_ret = last.ret]
          IN  done(_write_mapper0(Machine, a, v))
    /\ UNCHANGED stk

SpecROM == InitROM /\ [][CartRead \/ CartWrite]_vars

---------------------------------------------------------------------------
(* console.py: the driver loop *)

\* run_for raising the interrupt at the coordinate the vblank step starts from
RECURSIVE run_for_before_vblank(_)
run_for_before_vblank(c) ==
    IF c.left = 0 \/ ~Ok(c.m) THEN c
    ELSE LET at == c.m.ppu
             vblanks(r) ==
                 IF at.scanline = 241 /\ at.cycle = 1
                 THEN Append(c.vblanks, [step |-> c.steps + 1,
                                         enabled |-> r.ppu.generate_nmi])
                 ELSE c.vblanks
             checked(r) ==
                 IF ~Ok(r) THEN [c EXCEPT !.m = r]
                 ELSE IF r.ppu.scanline = 241 /\ r.ppu.cycle = 1
                         /\ r.ppu.generate_nmi
                 THEN [c EXCEPT !.m = trigger_NMI(r), !.left = @ - 1,
                                !.steps = @ + 1, !.vblanks = vblanks(r),
                                !.nmis = Append(@, [step |-> c.steps + 1,
                                                    from |-> <<at.scanline, at.cycle>>,
                                                    status |-> r.ppu.status,
                                                    enabled |-> r.ppu.generate_nmi,
                                                    cpu |-> r.cpu])]
                 ELSE [c EXCEPT !.m = r, !.left = @ - 1, !.steps = @ + 1,
                                !.vblanks = vblanks(r)]
         IN  run_for_before_vblank(checked(ppu_step(c.m)))

\* the for loop of run: c.left calls of ppu.step on the machine c.m, the interrupt
\* raised after a call that leaves the picture unit at scanline 241, cycle 2 with
\* generate_nmi set (the blit at (240, 257) touches the display only).  c.steps
\* counts the calls that returned, c.vblanks lists those made at (241, 1) and
\* c.nmis the calls of trigger_NMI with what the machine was at each.
RECURSIVE run_for(_)
run_for(c) ==
    IF c.left = 0 \/ ~Ok(c.m) THEN c
    ELSE LET at == c.m.ppu
             vblanks(r) ==
                 IF at.scanline = 241 /\ at.cycle = 1
                 THEN Append(c.vblanks, [step |-> c.steps + 1,
                                         enabled |-> r.ppu.generate_nmi])
                 ELSE c.vblanks
             checked(r) ==
                 IF ~Ok(r) THEN [c EXCEPT !.m = r]
                 ELSE IF r.ppu.scanline = 241 /\ r.ppu.cycle = 2
                         /\ r.ppu.generate_nmi
                 THEN [c EXCEPT !.m = trigger_NMI(r), !.left = @ - 1,
                                !.steps = @ + 1, !.vblanks = vblanks(r),
                                !.nmis = Append(@, [step |-> c.steps + 1,
                                                    from |-> <<at.scanline, at.cycle>>,
                                                    status |-> r.ppu.status,
                                                    enabled |-> r.ppu.generate_nmi,
                                                    cpu |-> r.cpu])]
                 ELSE [c EXCEPT !.m = r, !.left = @ - 1, !.steps = @ + 1,
                                !.vblanks = vblanks(r)]
         IN  run_for(checked(ppu_step(c.m)))

\* run counting two picture unit steps for a processor tick
run_two_for_one(s, ticks) ==
    LET loop(r) ==
            [m |-> r, stepped |-> r.cpu, new_ticks |-> r.cpu.cpu_ticks - ticks,
             left |-> IF Ok(r) THEN (r.cpu.cpu_ticks - ticks) * 2 ELSE 0,
             steps |-> 0, vblanks |-> <<>>, nmis |-> <<>>, ticks |-> ticks]
        counted(c) ==
            IF Ok(c.m) THEN [c EXCEPT !.ticks = @ + c.new_ticks] ELSE c
    IN  counted(run_for(loop(step(s))))

\* one turn of run's while loop up to the update of ticks: cpu.step(), then three
\* calls of ppu.step for each tick the processor counted
run(s, ticks) ==
    LET loop(r) ==
            [m |-> r, stepped |-> r.cpu, new_ticks |-> r.cpu.cpu_ticks - ticks,
             left |-> IF Ok(r) THEN (r.cpu.cpu_ticks - ticks) * 3 ELSE 0,
             steps |-> 0, vblanks |-> <<>>, nmis |-> <<>>, ticks |-> ticks]
        counted(c) ==
            IF Ok(c.m) THEN [c EXCEPT !.ticks = @ + c.new_ticks] ELSE c
    IN  counted(run_for(loop(step(s))))

\* two frames of the loop
MaxTurns == 20500

\* PPU(rom) and CPU(ppu, rom) on a cartridge whose program writes nmi to 0x2000 and
\* mask to 0x2001, starts a sprite DMA from page 2 and loops on a JMP, and whose
\* NMI handler reads the status register and returns; ticks = 0
InitConsole ==
    \E nmi \in {0, 128}, mask \in {0, 8, 16} :
        LET prg == <<169, nmi, 141, 0, 32, 169, mask, 141, 1, 32, 169, 2, 141, 20, 64,
                     76, 15, 128>>
                   @@ (33 :> 173) @@ (34 :> 2) @@ (35 :> 32) @@ (36 :> 64)
                   @@ (16379 :> 32) @@ (16380 :> 128) @@ (16382 :> 128)
                   @@ (16383 :> 32) @@ (16384 :> 128)
        IN  /\ cpu = new_cpu(32768)
            /\ ram = <<>>
            /\ ppu = new_ppu
            /\ rom = new_rom([i \in {j - 1 : j \in {k \in DOMAIN prg : prg[k] # 0}}
                                 |-> prg[i + 1]])
            /\ joypad1 = new_joypad
            /\ err = "none"
            /\ interpreter = <<>>
            /\ stk = [ticks |-> 0]
            /\ last = [n |-> 0, steps |-> 0, turn_steps |-> 0, new_ticks |-> 0,
                       stepped |-> cpu, vblanks |-> <<>>, nmis |-> <<>>,
                       nmi_at |-> -1, nmi_before |-> -1]

\* one turn of the loop, the keyboard events handled at its end: none, a press or
\* release of the key of button A, or the window closed (sys.exit())
Turn ==
    /\ UNCHANGED interpreter
    /\ err = "none"
    /\ last.n < MaxTurns
    /\ LET handled(c) ==
               /\ cpu' = c.m.cpu /\ ram' = c.m.ram /\ ppu' = c.m.ppu
               /\ rom' = c.m.rom
               /\ stk' = [ticks |-> c.ticks]
               /\ last' = [n |-> last.n + 1, steps |-> last.steps + c.steps,
                           turn_steps |-> c.steps, new_ticks |-> c.new_ticks,
                           stepped |-> c.stepped, vblanks |-> c.vblanks,
                           nmis |-> c.nmis,
                           nmi_at |-> IF c.nmis = <<>> THEN last.nmi_at
                                      ELSE last.steps + c.nmis[Len(c.nmis)].step,
                           nmi_before |-> IF c.nmis = <<>> THEN last.nmi_before
                                          ELSE last.nmi_at]
               /\ IF ~Ok(c.m) THEN joypad1' = c.m.joypad1 /\ err' = c.m.err
                  ELSE \E event \in {"none", "QUIT", "KEYDOWN", "KEYUP"} :
                          /\ joypad1' = IF event \in {"KEYDOWN", "KEYUP"}
                                        THEN [c.m.joypad1 EXCEPT
                                                 !.a = (event = "KEYDOWN")]
                                        ELSE c.m.joypad1
                          /\ err' = IF event = "QUIT" THEN "SystemExit" ELSE "none"
       IN  handled(run(Machine, stk.ticks))

SpecConsole == InitConsole /\ [][Turn]_vars

----------------------------------------------------------------------------
(* cpu.py: the debugging log, and the loop of test_nestest *)

\* f"{v:0{width}X}": the hexadecimal digits of v, the most significant first, padded
\* with zeros to at least width characters, a minus sign counting as one of them
RECURSIVE Hex(_, _)
Hex(v, width) ==
    LET digit == <<"0", "1", "2", "3", "4", "5", "6", "7", "8", "9",
                   "A", "B", "C", "D", "E", "F">>[(v % 16) + 1]
    IN  IF v < 0 THEN <<"-">> \o Hex(-v, width - 1)
        ELSE IF v < 16 /\ width <= 1 THEN <<digit>>
        ELSE Append(Hex(v \div 16, width - 1), digit)

\* CPU.log: the line as a sequence of characters; every member of InstructionType
\* has a name of three letters, written here as the letters 1..3 of the type
log(s) ==
    LET space == <<" ">>
        name(type) == [i \in 1..3 |-> [letter |-> i, of |-> type]]
        registers(c) ==
            <<"A", ":">> \o Hex(c.A, 2) \o <<" ", "X", ":">> \o Hex(c.X, 2)
                \o <<" ", "Y", ":">> \o Hex(c.Y, 2)
                \o <<" ", "P", ":">> \o Hex(status(c), 2)
                \o <<" ", "S", "P", ":">> \o Hex(c.SP, 2)
        line(s3, opcode, instruction, data1, data2) ==
            Return(s3, Hex(s3.cpu.PC, 4) \o <<" ", " ">> \o Hex(opcode, 2) \o space
                           \o data1 \o space \o data2 \o <<" ", " ">>
                           \o name(instruction.type) \o [i \in 1..29 |-> " "]
                           \o registers(s3.cpu))
        read2(s3, opcode, instruction, data1) ==
            IF ~Ok(s3) THEN s3
            ELSE line(s3, opcode, instruction, data1, Hex(s3.ret, 2))
        second(s2, opcode, instruction, data1) ==
            IF instruction.length < 3 THEN line(s2, opcode, instruction, data1, space)
            ELSE read2(_read_memory(s2, s2.cpu.PC + 2, "ABSOLUTE"), opcode,
                       instruction, data1)
        read1(s2, opcode, instruction) ==
            IF ~Ok(s2) THEN s2
            ELSE second(s2, opcode, instruction, Hex(s2.ret, 2))
        first(s1, opcode) ==
            IF opcode + 1 \notin DOMAIN instructions THEN Raise(s1, "IndexError")
            ELSE IF instructions[opcode + 1].length < 2
            THEN second(s1, opcode, instructions[opcode + 1], space)
            ELSE read1(_read_memory(s1, s1.cpu.PC + 1, "ABSOLUTE"), opcode,
                       instructions[opcode + 1])
        read0(s1) == IF ~Ok(s1) THEN s1 ELSE first(s1, s1.ret)
    IN  read0(_read_memory(s, s.cpu.PC, "ABSOLUTE"))

\* one round of the loop of test_nestest: the line is taken, then the step is made
LogStep ==
    /\ UNCHANGED interpreter
    /\ err = "none"
    /\ last.n < MaxSteps
    /\ LET done(r, logged) ==
               /\ Becomes(r)
               /\ last' = [n |-> last.n + 1, opcode |-> r.opcode, data |-> r.data,
                           pre |-> cpu, ram |-> ram, wr |-> r.wr,
                           stalled |-> cpu.stall > 0]
               /\ stk' = [line |-> logged.ret, logged |-> Ok(logged)]
           stepped(logged) ==
               done(IF Ok(logged) THEN step(logged) ELSE logged, logged)
       IN  stepped(log(Machine))

SpecLog == Init /\ [][LogStep]_vars

----------------------------------------------------------------------------
(* brainfuck.py: the Brainfuck interpreter; positions in the source count from 0 *)

\* parse_brackets with stack.pop(0): a closing bracket paired with the oldest
\* opening bracket still open
parse_brackets_oldest_first(src) ==
    LET RECURSIVE scan(_, _, _)
        scan(idx, stack, matched) ==
            IF idx >= Len(src)
            THEN IF stack # <<>> THEN [err |-> "InvalidLoopError", matched |-> <<>>]
                 ELSE [err |-> "none", matched |-> matched]
            ELSE IF src[idx + 1] = "[" THEN scan(idx + 1, Append(stack, idx), matched)
            ELSE IF src[idx + 1] = "]"
            THEN IF stack = <<>> THEN [err |-> "InvalidLoopError", matched |-> <<>>]
                 ELSE scan(idx + 1, Tail(stack), Append(matched, <<Head(stack), idx>>))
            ELSE scan(idx + 1, stack, matched)
    IN  scan(0, <<>>, <<>>)

\* parse_brackets(src): the pairs (opening, closing) in the order the brackets close
parse_brackets(src) ==
    LET RECURSIVE scan(_, _, _)
        \* the for loop from idx on
        scan(idx, stack, matched) ==
            IF idx >= Len(src)
            THEN IF stack # <<>> THEN [err |-> "InvalidLoopError", matched |-> <<>>]
                 ELSE [err |-> "none", matched |-> matched]
            ELSE IF src[idx + 1] = "[" THEN scan(idx + 1, Append(stack, idx), matched)
            ELSE IF src[idx + 1] = "]"
            THEN IF stack = <<>> THEN [err |-> "InvalidLoopError", matched |-> <<>>]
                 ELSE scan(idx + 1, SubSeq(stack, 1, Len(stack) - 1),
                           Append(matched, <<stack[Len(stack)], idx>>))
            ELSE scan(idx + 1, stack, matched)
    IN  scan(0, <<>>, <<>>)

\* Brainfuck.find_bracket_match(start, forward)
find_bracket_match(self, start, forward) ==
    LET step_ == IF forward THEN 1 ELSE -1
        start_char == IF forward THEN "[" ELSE "]"
        end_char == IF forward THEN "]" ELSE "["
        RECURSIVE search(_, _)
        \* the while loop from loc on
        search(loc, stack_count) ==
            IF ~(0 <= loc /\ loc < Len(self.src))
            THEN [err |-> "InvalidLoopError", ret |-> -1]
            ELSE IF self.src[loc + 1] = end_char
            THEN IF stack_count = 0 THEN [err |-> "none", ret |-> loc]
                 ELSE search(loc + step_, stack_count - 1)
            ELSE IF self.src[loc + 1] = start_char
            THEN search(loc + step_, stack_count + 1)
            ELSE search(loc + step_, stack_count)
    IN  search(start + step_, 0)

\* Brainfuck.execute: one pass of its loop, entered being what input() returns to
\* a READ; cells is indexed as a Python list, a negative index counting from the end
execute(self, entered) ==
    LET raw_instruction == self.src[self.pointer + 1]
        clamp_int(num) == IF num > 255 THEN 0 ELSE IF num < 0 THEN 255 ELSE num
        indexable == -self.n_cells <= self.cell_idx /\ self.cell_idx < self.n_cells
        at == self.cell_idx % self.n_cells
        raise(e) == [self EXCEPT !.err = e]
        next(b) == [b EXCEPT !.pointer = @ + 1]
        stored(v) == IF indexable THEN next([self EXCEPT !.cells[at] = clamp_int(v)])
                     ELSE raise("IndexError")
        jump(found) == IF found.err # "none" THEN raise(found.err)
                       ELSE next([self EXCEPT !.pointer = found.ret])
        mapped == IF self.pointer \in DOMAIN self.bracket_map
                  THEN [err |-> "none", ret |-> self.bracket_map[self.pointer]]
                  ELSE [err |-> "KeyError", ret |-> -1]
    IN  CASE raw_instruction = ">" -> next([self EXCEPT !.cell_idx = @ + 1])
          [] raw_instruction = "<" -> next([self EXCEPT !.cell_idx = @ - 1])
          [] raw_instruction = "+" ->
                 IF indexable THEN stored(self.cells[at] + 1) ELSE raise("IndexError")
          [] raw_instruction = "-" ->
                 IF indexable THEN stored(self.cells[at] - 1) ELSE raise("IndexError")
          [] raw_instruction = "." -> IF indexable THEN next(self) ELSE raise("IndexError")
          [] raw_instruction = "," -> stored(entered)
          [] raw_instruction = "[" ->
                 IF ~indexable THEN raise("IndexError")
                 ELSE IF self.cells[at] # 0 THEN next(self)
                 ELSE IF self.cache_loops THEN jump(mapped)
                 ELSE jump(find_bracket_match(self, self.pointer, TRUE))
          [] raw_instruction = "]" ->
                 IF ~indexable THEN raise("IndexError")
                 ELSE IF self.cells[at] = 0 THEN next(self)
                 ELSE IF self.cache_loops THEN jump(mapped)
                 ELSE jump(find_bracket_match(self, self.pointer, FALSE))
          [] OTHER -> next(self)

\* the longest source of which every text over the loop alphabet is run
MaxSrc == 5

\* Brainfuck(src, n_cells = 2, cache_loops) built twice from one source, with and
\* without the bracket cache (__init__ and _map_brackets), each after the reset()
\* execute starts with; a construction that raised leaves no object, only the
\* exception. The sources are every text of up to MaxSrc characters over "[", "]",
\* "+", "-", ">", and the programs of the tests and two nested loops that run
InitBrainfuck ==
    \E src \in (UNION {[1..n -> {"[", "]", "+", "-", ">"}] : n \in 0..MaxSrc})
                 \cup {<<"[", "+", "+", "[", "-", "-", "]", "<", "<", "]">>,
                       <<",", ">", ",", "[", "<", ".", ">", "-", "]">>,
                       <<"[", "+", "+", "+">>, <<"+", "+", "+", "]">>,
                       <<"+", "+", "[", ">", "+", "[", "-", "]", "<", "-", "]">>,
                       <<",", "[", "[", "-", "x", "]", "]", ".">>} :
        LET Brainfuck(cache_loops) ==
                LET parsed == IF cache_loops THEN parse_brackets(src)
                              ELSE [err |-> "none", matched |-> <<>>]
                    matched == parsed.matched
                    ends(i) == {matched[i][1], matched[i][2]}
                    last_with(p) ==
                        CHOOSE i \in DOMAIN matched :
                            /\ p \in ends(i)
                            /\ \A j \in DOMAIN matched : j > i => p \notin ends(j)
                    _bracket_map ==
                        [p \in UNION {ends(i) : i \in DOMAIN matched} |->
                            IF p = matched[last_with(p)][1] /\ p # matched[last_with(p)][2]
                            THEN matched[last_with(p)][2]
                            ELSE matched[last_with(p)][1]]
                IN  IF parsed.err # "none" THEN [src |-> src, err |-> parsed.err]
                    ELSE [src |-> src, n_cells |-> 2, cache_loops |-> cache_loops,
                          bracket_map |-> _bracket_map, cells |-> [i \in 0..1 |-> 0],
                          cell_idx |-> 0, pointer |-> 0, err |-> "none"]
        IN  /\ interpreter = [cached |-> Brainfuck(TRUE), naive |-> Brainfuck(FALSE)]
            /\ cpu = <<>> /\ ram = <<>> /\ ppu = <<>> /\ rom = <<>> /\ joypad1 = <<>>
            /\ err = "none" /\ last = <<>> /\ stk = <<>>

\* one pass of the loop of execute in both interpreters, a READ being given the same
\* input in both
Execute ==
    /\ interpreter.naive.err = "none"
    /\ interpreter.naive.pointer < Len(interpreter.naive.src)
    /\ \E entered \in {3, 300} :
          LET runs(b) == b.err = "none" /\ b.pointer < Len(b.src)
              pass(b) == IF runs(b) THEN execute(b, entered) ELSE b
          IN  interpreter' = [cached |-> pass(interpreter.cached),
                              naive |-> pass(interpreter.naive)]
    /\ UNCHANGED <<cpu, ram, ppu, rom, joypad1, err, last, stk>>

SpecBrainfuck == InitBrainfuck /\ [][Execute]_vars

----------------------------------------------------------------------------
(* NanoBASIC/interpreter.py: the interpreter; a node is a record whose type is the
   name of its class, statements counts from 1 where the list counts from 0 *)

\* _find_line_idx returning the place the line would take when it is not there
_find_line_idx_nearest(self, line_id) ==
    LET RECURSIVE search(_, _)
        search(low, high) ==
            IF low > high THEN low
            ELSE LET mid == (low + high) \div 2
                 IN  IF self.statements[mid + 1].line_id < line_id
                     THEN search(mid + 1, high)
                     ELSE IF self.statements[mid + 1].line_id > line_id
                     THEN search(low, mid - 1)
                     ELSE mid
    IN  search(0, Len(self.statements) - 1)

\* Interpreter._find_line_idx(line_id), None being -1
_find_line_idx(self, line_id) ==
    LET RECURSIVE search(_, _)
        \* the while loop
        search(low, high) ==
            IF low > high THEN -1
            ELSE LET mid == (low + high) \div 2
                 IN  IF self.statements[mid + 1].line_id < line_id
                     THEN search(mid + 1, high)
                     ELSE IF self.statements[mid + 1].line_id > line_id
                     THEN search(low, mid - 1)
                     ELSE mid
    IN  search(0, Len(self.statements) - 1)

\* Interpreter._interpret(statement), with _evaluate_numeric and _evaluate_boolean
RECURSIVE _interpret(_, _)
_interpret(self, statement) ==
    LET raise(e) == [self EXCEPT !.err = e]
        value(v) == [err |-> "none", ret |-> v]
        failed(e) == [err |-> e, ret |-> 0]
        RECURSIVE _evaluate_numeric(_)
        _evaluate_numeric(numeric_expr) ==
            LET both(operator, left, right) ==
                    IF operator \notin {"PLUS", "MINUS", "MULTIPLY", "DIVIDE"}
                    THEN failed("InterpreterError")
                    ELSE IF left.err # "none" THEN left
                    ELSE IF right.err # "none" THEN right
                    ELSE CASE operator = "PLUS" -> value(left.ret + right.ret)
                           [] operator = "MINUS" -> value(left.ret - right.ret)
                           [] operator = "MULTIPLY" -> value(left.ret * right.ret)
                           [] operator = "DIVIDE" ->
                                  IF right.ret = 0 THEN failed("ZeroDivisionError")
                                  ELSE IF right.ret < 0
                                  THEN value((-left.ret) \div (-right.ret))
                                  ELSE value(left.ret \div right.ret)
                 negated(v) == IF v.err # "none" THEN v ELSE value(-v.ret)
            IN  CASE numeric_expr.type = "NumericLiteral" -> value(numeric_expr.number)
                  [] numeric_expr.type = "VarRetrieve" ->
                         IF numeric_expr.name \in DOMAIN self.variable_table
                         THEN value(self.variable_table[numeric_expr.name])
                         ELSE failed("InterpreterError")
                  [] numeric_expr.type = "UnaryOp" ->
                         IF numeric_expr.operator = "MINUS"
                         THEN negated(_evaluate_numeric(numeric_expr.expr))
                         ELSE failed("InterpreterError")
                  [] numeric_expr.type = "BinaryOp" ->
                         both(numeric_expr.operator,
                              _evaluate_numeric(numeric_expr.left_expr),
                              _evaluate_numeric(numeric_expr.right_expr))
                  [] OTHER -> failed("InterpreterError")
        _evaluate_boolean(boolean_expr) ==
            LET compared(operator, left, right) ==
                    IF left.err # "none" THEN left
                    ELSE IF right.err # "none" THEN right
                    ELSE CASE operator = "LESS" -> value(left.ret < right.ret)
                           [] operator = "LESS_EQUAL" -> value(left.ret <= right.ret)
                           [] operator = "GREATER" -> value(left.ret > right.ret)
                           [] operator = "GREATER_EQUAL" -> value(left.ret >= right.ret)
                           [] operator = "EQUAL" -> value(left.ret = right.ret)
                           [] operator = "NOT_EQUAL" -> value(left.ret # right.ret)
                           [] OTHER -> failed("InterpreterError")
            IN  compared(boolean_expr.operator,
                         _evaluate_numeric(boolean_expr.left_expr),
                         _evaluate_numeric(boolean_expr.right_expr))
        next == [self EXCEPT !.statement_idx = @ + 1]
        let(val) ==
            IF val.err # "none" THEN raise(val.err)
            ELSE [next EXCEPT !.variable_table =
                     [n \in DOMAIN @ \cup {statement.name} |->
                         IF n = statement.name THEN val.ret ELSE @[n]]]
        goto(line_idx) ==
            IF line_idx # -1 THEN [self EXCEPT !.statement_idx = line_idx]
            ELSE raise("InterpreterError")
        gosub(line_idx) ==
            IF line_idx # -1
            THEN [self EXCEPT !.subroutine_stack = Append(@, self.statement_idx + 1),
                              !.statement_idx = line_idx]
            ELSE raise("InterpreterError")
        to(line, jump(_)) ==
            IF line.err # "none" THEN raise(line.err)
            ELSE jump(_find_line_idx(self, line.ret))
        print(comps) ==
            IF \E i \in DOMAIN comps : comps[i].err # "none"
            THEN raise(comps[CHOOSE i \in DOMAIN comps :
                                /\ comps[i].err # "none"
                                /\ \A j \in 1..(i - 1) : comps[j].err = "none"].err)
            ELSE next
        if(condition) ==
            IF condition.err # "none" THEN raise(condition.err)
            ELSE IF condition.ret THEN _interpret(self, statement.then_stmt)
            ELSE next
    IN  CASE statement.type = "LetStmt" -> let(_evaluate_numeric(statement.expr))
          [] statement.type = "GoToStmt" -> to(_evaluate_numeric(statement.line_expr), goto)
          [] statement.type = "GoSubStmt" ->
                 to(_evaluate_numeric(statement.line_expr), gosub)
          [] statement.type = "ReturnStmt" ->
                 IF self.subroutine_stack = <<>> THEN raise("InterpreterError")
                 ELSE [self EXCEPT
                          !.statement_idx = self.subroutine_stack[Len(self.subroutine_stack)],
                          !.subroutine_stack = SubSeq(@, 1, Len(@) - 1)]
          [] statement.type = "PrintStmt" ->
                 print([i \in DOMAIN statement.printables |->
                           IF statement.printables[i].type = "str" THEN value(0)
                           ELSE _evaluate_numeric(statement.printables[i])])
          [] statement.type = "IfStmt" -> if(_evaluate_boolean(statement.boolean_expr))
          [] OTHER -> raise("InterpreterError")

\* the most statements a program has, and the deepest subroutine stack run from
MaxStmts == 3
MaxCalls == 3

\* Interpreter(statements) for every program of up to MaxStmts lines numbered 10,
\* 20, ..., each line one of: RETURN, PRINT "", LET A = 30, GOTO 10, GOTO 25,
\* GOTO A / 3, GOSUB 20, GOSUB 30, GOSUB 25, GOSUB A, IF 1 < 2 THEN RETURN,
\* IF A = 30 THEN GOSUB 10
InitBasic ==
    LET literal(number) == [type |-> "NumericLiteral", number |-> number]
        A == [type |-> "VarRetrieve", name |-> "A"]
        bodies(line_id) ==
            LET goto(e) == [type |-> "GoToStmt", line_id |-> line_id, line_expr |-> e]
                gosub(e) == [type |-> "GoSubStmt", line_id |-> line_id, line_expr |-> e]
                return == [type |-> "ReturnStmt", line_id |-> line_id]
                if(operator, left, right, then) ==
                    [type |-> "IfStmt", line_id |-> line_id, then_stmt |-> then,
                     boolean_expr |-> [type |-> "BooleanExpr", operator |-> operator,
                                       left_expr |-> left, right_expr |-> right]]
            IN  {return,
                 [type |-> "PrintStmt", line_id |-> line_id,
                  printables |-> <<[type |-> "str"]>>],
                 [type |-> "LetStmt", line_id |-> line_id, name |-> "A",
                  expr |-> literal(30)],
                 goto(literal(10)), goto(literal(25)),
                 goto([type |-> "BinaryOp", operator |-> "DIVIDE", left_expr |-> A,
                       right_expr |-> literal(3)]),
                 gosub(literal(20)), gosub(literal(30)), gosub(literal(25)), gosub(A),
                 if("LESS", literal(1), literal(2), return),
                 if("EQUAL", A, literal(30), gosub(literal(10)))}
        programs ==
            UNION {{statements \in [1..n -> UNION {bodies(10 * i) : i \in 1..n}] :
                        \A i \in 1..n : statements[i].line_id = 10 * i} :
                   n \in 1..MaxStmts}
    IN  \E statements \in programs :
            /\ interpreter = [statements |-> statements, variable_table |-> <<>>,
                              statement_idx |-> 0, subroutine_stack |-> <<>>,
                              err |-> "none"]
            /\ last = [n |-> 0, before |-> interpreter, statement |-> statements[1],
                       calls |-> <<>>, returned |-> -1]
            /\ cpu = <<>> /\ ram = <<>> /\ ppu = <<>> /\ rom = <<>> /\ joypad1 = <<>>
            /\ err = "none" /\ stk = <<>>

\* one pass of the loop of Interpreter.run; calls lists the statement indices of the
\* GOSUBs not yet returned from, returned the one the last RETURN returned from
Interpret ==
    /\ interpreter.err = "none"
    /\ interpreter.statement_idx < Len(interpreter.statements)
    /\ Len(interpreter.subroutine_stack) <= MaxCalls
    /\ LET current == interpreter.statements[interpreter.statement_idx + 1]
           depth == Len(interpreter.subroutine_stack)
           done(after) ==
               /\ interpreter' = after
               /\ last' = [n |-> 1, before |-> interpreter, statement |-> current,
                           calls |-> IF Len(after.subroutine_stack) > depth
                                     THEN Append(last.calls, interpreter.statement_idx)
                                     ELSE IF Len(after.subroutine_stack) < depth
                                     THEN SubSeq(last.calls, 1, Len(last.calls) - 1)
                                     ELSE last.calls,
                           returned |-> IF Len(after.subroutine_stack) < depth
                                        THEN last.calls[Len(last.calls)] ELSE -1]
       IN  done(_interpret(interpreter, current))
    /\ UNCHANGED <<cpu, ram, ppu, rom, joypad1, err, stk>>

SpecBasic == InitBasic /\ [][Interpret]_vars

----------------------------------------------------------------------------
(* ppu.py: the sprites of a frame *)

\* the picture unit as a program has set it up before a frame is drawn, by writes to
\* its registers: control 0 (nametable at 0x2000, both pattern tables at 0), mask m,
\* tile `under` in the four nametable cells sprite 0 can cover, colour v in the
\* last sprite palette cell; sprite RAM as a DMA leaves it, sprite 0 at (x_pos,
\* y_pos) with the tile and attributes chosen, the others hidden at y = 0xFF. In
\* the graphics ROM tile 0 is empty, tile 1 is solid in both bit planes and tile 2
\* has its right half set in the high plane
InitSprites ==
    \E m \in {16, 24, 26, 28, 30}, x_pos \in {0, 4, 100, 252}, y_pos \in {16, 236},
       attr \in {3, 35, 67, 131}, tile \in {1, 2}, under \in {0, 1}, v \in {22, 200} :
        LET chr == [i \in (16..31) \cup (40..47) |-> IF i < 32 THEN 255 ELSE 15]
            sprite == (0 :> y_pos) @@ (1 :> tile) @@ (2 :> attr) @@ (3 :> x_pos)
            spr == [i \in {j \in 0..(SPR_RAM_SIZE - 1) :
                              IF j < 4 THEN sprite[j] # 0 ELSE j % 4 = 0} |->
                       IF i < 4 THEN sprite[i] ELSE 255]
            built == [cpu |-> new_cpu(32768), ram |-> <<>>,
                      ppu |-> [new_ppu EXCEPT !.spr = spr],
                      rom |-> [new_rom(Program(234, 0)) EXCEPT !.chr_rom = chr],
                      joypad1 |-> new_joypad, err |-> "none", ret |-> 0,
                      wr |-> NoWrite, opcode |-> -1, data |-> 0]
            poke(s, addr, val) ==
                write_register(write_register(write_register(s, 8198, addr \div 256),
                                              8198, addr % 256), 8199, val)
            cell(col, row) == 8192 + (row * 32) + col
            col == x_pos \div 8
            row == y_pos \div 8
            left(r) ==
                /\ cpu = r.cpu /\ ram = r.ram /\ ppu = r.ppu /\ rom = r.rom
                /\ joypad1 = r.joypad1 /\ err = r.err
                /\ last = [n |-> 0, before |-> r.ppu]
                /\ interpreter = <<>>
                /\ stk = NoStack
        IN  left(poke(poke(poke(poke(poke(
                 write_register(write_register(built, 8192, 0), 8193, m),
                 cell(col, row), under), cell((col + 1) % 32, row), under),
                 cell(col, (row + 1) % 30), under),
                 cell((col + 1) % 32, (row + 1) % 30), under), 16159, v))

\* the sprites of a frame: _draw_sprites(False), as PPU.step calls it at scanline
\* 240, cycle 256 when sprites are shown, the background being composed
DrawSprites ==
    /\ UNCHANGED interpreter
    /\ err = "none"
    /\ last.n = 0
    /\ ppu.show_sprites
    /\ LET done(r) == Becomes(r) /\ last' = [n |-> 1, before |-> ppu]
       IN  done(_draw_sprites(Machine, FALSE))
    /\ UNCHANGED stk

SpecSprites == InitSprites /\ [][DrawSprites]_vars

---------------------------------------------------------------------------
\* The joypad port

MaxPad == 12

\* the console after construction, the key events so far having left some of the
\* buttons of joypad 1 held
InitJoypad ==
    \E held \in {<<>>, <<1>>, <<2>>, <<1, 3, 5, 7>>, <<2, 4, 6, 8>>, <<8>>,
                 <<1, 2, 3, 4, 5, 6, 7, 8>>} :
        LET on(i) == \E j \in 1..Len(held) : held[j] = i
        IN  /\ cpu = new_cpu(32768)
            /\ ram = <<>>
            /\ ppu = new_ppu
            /\ rom = new_rom(Program(234, 0))
            /\ joypad1 = [new_joypad EXCEPT !.a = on(1), !.b = on(2), !.select = on(3),
                                            !.start = on(4), !.up = on(5), !.down = on(6),
                                            !.left = on(7), !.right = on(8)]
            /\ err = "none"
            /\ last = [n |-> 0, op |-> "none", ret |-> 0, k |-> 0, restarted |-> FALSE,
                       strobe |-> FALSE, read_count |-> 0]
            /\ interpreter = <<>>
            /\ stk = NoStack

\* CPU._read_memory(0x4016, MemMode.ABSOLUTE)
JoypadRead ==
    /\ UNCHANGED interpreter
    /\ err = "none"
    /\ last.n < MaxPad
    /\ LET done(r) ==
               /\ Becomes(r)
               /\ last' = [last EXCEPT !.n = @ + 1, !.op = "read", !.ret = r.ret,
                                       !.k = IF joypad1.strobe THEN @ ELSE @ + 1,
                                       !.strobe = joypad1.strobe,
                                       !.read_count = joypad1.read_count]
       IN  done(_read_memory(Machine, 16406, "ABSOLUTE"))
    /\ UNCHANGED stk

\* CPU._write_memory(0x4016, MemMode.ABSOLUTE, v)
JoypadWrite ==
    /\ UNCHANGED interpreter
    /\ err = "none"
    /\ last.n < MaxPad
    /\ \E v \in {0, 1, 254, 255} :
          LET falls == joypad1.strobe /\ BitAnd(v, 1) = 0
              done(r) ==
                  /\ Becomes(r)
                  /\ last' = [last EXCEPT !.n = @ + 1, !.op = "write", !.ret = 0,
                                          !.k = IF falls THEN 0 ELSE @,
                                          !.restarted = @ \/ falls,
                                          !.strobe = joypad1.strobe,
                                          !.read_count = joypad1.read_count]
          IN  done(_write_memory(Machine, 16406, "ABSOLUTE", v))
    /\ UNCHANGED stk

SpecJoypad == InitJoypad /\ [][JoypadRead \/ JoypadWrite]_vars

---------------------------------------------------------------------------
\* Subroutine call and return among the other stack instructions

\* CPU._JSR, once, to a subroutine in the cartridge
JSR ==
    /\ UNCHANGED interpreter
    /\ last.n = 0
    /\ \E data \in {32784, 49152} :
          LET done(r) ==
                  /\ Becomes(r)
                  /\ stk' = [Pushes(r, 2, "JSR") EXCEPT !.n = stk.n]
                  /\ last' = [n |-> 1, P |-> cpu.PC, SP |-> cpu.SP, data |-> data,
                              frame |-> stk'.pushed, ops |-> stk.n, balanced |-> FALSE,
                              between |-> 0]
          IN  done(_JSR(Machine, instructions[32 + 1], data))

\* CPU._RTS, in the subroutine
RTS ==
    /\ UNCHANGED interpreter
    /\ last.n = 1
    /\ Len(stk.pushed) > 1
    /\ LET done(r) ==
               /\ Becomes(r)
               /\ stk' = [Pops(r, 2, "RTS") EXCEPT !.n = stk.n]
               /\ last' = [last EXCEPT !.n = 2, !.balanced = (stk.pushed = last.frame),
                                       !.between = stk.n - last.ops]
       IN  done(_RTS(Machine, instructions[96 + 1], 0))

SpecCall == InitStatus /\ [][JSR \/ RTS \/ PHA \/ PLP \/ NMI]_vars
---------------------------------------------------------------------------
(* Properties *)

\* a byte read as a signed 8-bit number
Signed8(d) == IF d >= 128 THEN d - 256 ELSE d

\* the last call of step ran an instruction to its end
Executed == last.n > 0 /\ ~last.stalled /\ err = "none"

\* the table entry of the instruction the last step ran
Entry == instructions[last.opcode + 1]

\* the condition each conditional branch of the 6502 tests, on the flags c
BranchCondition(type, c) ==
    CASE type = "BPL" -> ~c.N
      [] type = "BMI" -> c.N
      [] type = "BVC" -> ~c.V
      [] type = "BVS" -> c.V
      [] type = "BCC" -> ~c.C
      [] type = "BCS" -> c.C
      [] type = "BNE" -> ~c.Z
      [] type = "BEQ" -> c.Z
      [] OTHER -> FALSE

\* the target of the branch the last step ran
BranchTarget == (last.pre.PC + 2 + Signed8(last.data)) % 65536

\* the last step ran a conditional branch whose condition held
TakenBranch ==
    Entry.type \in BRANCH_INSTRUCTIONS /\ BranchCondition(Entry.type, last.pre)

\* indexing the operand of the last step changed the high byte of its address
HighByteChanged ==
    LET c == last.pre
        data == last.data
        ptr == Get(last.ram, data % 256) + 256 * Get(last.ram, (data + 1) % 256)
    IN  CASE Entry.mode = "ABSOLUTE_X" -> ((data + c.X) % 65536) \div 256 # data \div 256
          [] Entry.mode = "ABSOLUTE_Y" -> ((data + c.Y) % 65536) \div 256 # data \div 256
          [] Entry.mode = "INDIRECT_INDEXED" -> ((ptr + c.Y) % 65536) \div 256 # ptr \div 256
          [] OTHER -> FALSE

\* C1: the instruction table has exactly 256 entries, one per opcode byte, and the
\* entry of every opcode byte the CPU fetches (each of 0x00-0xFF is fetched) has an
\* operand length of 1, 2 or 3, a base cycle cost of at least 2 and a handler
C1_TableWellFormed ==
    /\ Len(instructions) = 256
    /\ \A b \in 0..255 :
          last.opcode = b =>
              /\ instructions[b + 1].length \in {1, 2, 3}
              /\ instructions[b + 1].ticks >= 2
              /\ instructions[b + 1].method # ""

\* C2: a conditional branch run at P with offset d leaves PC at P + 2 + signed8(d)
\* (mod 0x10000) and costs its base cost plus one when its condition holds, and
\* leaves PC at P + 2 and costs its base cost when it does not
C2_BranchSemantics ==
    (Executed /\ Entry.type \in BRANCH_INSTRUCTIONS) =>
        IF BranchCondition(Entry.type, last.pre)
        THEN /\ cpu.PC = BranchTarget
             /\ cpu.cpu_ticks = last.pre.cpu_ticks + Entry.ticks + 1
        ELSE /\ cpu.PC = last.pre.PC + 2
             /\ cpu.cpu_ticks = last.pre.cpu_ticks + Entry.ticks

\* C3: opcode 0xB0 (BCS) moves PC to the branch target exactly when carry is set and
\* opcode 0x90 (BCC) exactly when carry is clear, so that for each carry value
\* exactly one of the two branches (an offset of 0 makes the target the next
\* instruction either way, and is left out)
C3_CarryBranches ==
    (Executed /\ last.data # 0) =>
        /\ last.opcode = 176 => ((cpu.PC = BranchTarget) <=> last.pre.C)
        /\ last.opcode = 144 => ((cpu.PC = BranchTarget) <=> ~last.pre.C)

\* C4: with no stall pending, a step adds to cpu_ticks the base cost of the opcode,
\* plus its page-crossing cost exactly when indexing an absolute-X, absolute-Y or
\* (indirect),Y operand changed the high byte of the address, plus one exactly when
\* it is a taken conditional branch
C4_StepCost ==
    Executed =>
        cpu.cpu_ticks = last.pre.cpu_ticks + Entry.ticks
                          + (IF HighByteChanged THEN Entry.page_ticks ELSE 0)
                          + (IF TakenBranch THEN 1 ELSE 0)

\* C5: ADC leaves A' = (A + M + C) mod 256 and sets carry exactly when A + M + C > 255;
\* SBC leaves A' = (A - M - (1 - C)) mod 256 and sets carry exactly when
\* A - M - (1 - C) >= 0
C5_AddSubtract ==
    LET A == last.pre.A
        M == last.data
        C == B2I(last.pre.C)
    IN  /\ (Executed /\ last.opcode = 105) =>
              cpu.A = (A + M + C) % 256 /\ (cpu.C <=> A + M + C > 255)
        /\ (Executed /\ last.opcode = 233) =>
              cpu.A = (A - M - (1 - C)) % 256 /\ (cpu.C <=> A - M - (1 - C) >= 0)

\* an ADC that carried out of bit 7 and an SBC that borrowed
C5_Witness ==
    \/ Executed /\ last.opcode = 105 /\ last.pre.A = 255 /\ last.data = 1 /\ last.pre.C
          /\ cpu.A = 1 /\ cpu.C
    \/ Executed /\ last.opcode = 233 /\ last.pre.A = 0 /\ last.data = 1 /\ last.pre.C
          /\ cpu.A = 255 /\ ~cpu.C

\* C6: after ADC the overflow flag is set exactly when signed8(A) + signed8(M) + C is
\* outside -128..127, after SBC exactly when signed8(A) - signed8(M) - (1 - C) is
C6_SignedOverflow ==
    LET A == Signed8(last.pre.A)
        M == Signed8(last.data)
        C == B2I(last.pre.C)
    IN  /\ (Executed /\ last.opcode = 105) => (cpu.V <=> A + M + C \notin -128..127)
        /\ (Executed /\ last.opcode = 233) => (cpu.V <=> A - M - (1 - C) \notin -128..127)

\* 127 + 1 overflowing to -128, and -128 - 1 overflowing to 127
C6_Witness ==
    \/ Executed /\ last.opcode = 105 /\ last.pre.A = 127 /\ last.data = 1 /\ ~last.pre.C
          /\ cpu.V
    \/ Executed /\ last.opcode = 233 /\ last.pre.A = 128 /\ last.data = 1 /\ last.pre.C
          /\ cpu.V

\* the instructions that set the zero and negative flags from their result
ZNInstructions ==
    {"ADC", "SBC", "AND", "ORA", "EOR", "ASL", "LSR", "ROL", "ROR", "INC", "DEC", "INX",
     "INY", "DEX", "DEY", "LDA", "LDX", "LDY", "PLA", "TAX", "TAY", "TXA", "TYA", "TSX"}

\* the result the last step stored: in A, X or Y, or in memory
StoredResult ==
    CASE Entry.type \in {"ADC", "SBC", "AND", "ORA", "EOR", "LDA", "PLA", "TXA", "TYA"} -> cpu.A
      [] Entry.type \in {"INX", "DEX", "LDX", "TAX", "TSX"} -> cpu.X
      [] Entry.type \in {"INY", "DEY", "LDY", "TAY"} -> cpu.Y
      [] Entry.type \in {"ASL", "LSR", "ROL", "ROR"} ->
            IF Entry.mode = "ACCUMULATOR" THEN cpu.A ELSE last.wr.val
      [] Entry.type \in {"INC", "DEC"} -> last.wr.val
      [] OTHER -> -1

\* C7: after an arithmetic, logical, shift, rotate, increment, decrement, load, pull
\* or transfer instruction the stored result is in 0..255, the zero flag says that
\* it is 0 and the negative flag is its bit 7
C7_ZeroNegative ==
    (Executed /\ Entry.type \in ZNInstructions) =>
        /\ StoredResult \in 0..255
        /\ cpu.Z <=> StoredResult = 0
        /\ cpu.N <=> Bit(StoredResult, 7) = 1

\* a rotate right of a memory operand that moved the carry into bit 7
C7_Witness ==
    /\ Executed
    /\ Entry.type = "ROR" /\ Entry.mode # "ACCUMULATOR"
    /\ last.pre.C /\ last.wr.val >= 128 /\ cpu.N /\ ~cpu.Z

\* C8: CMP, CPX and CPY of register value R with operand M set carry exactly when
\* R >= M, zero exactly when R = M and negative exactly when bit 7 of (R - M) mod 256
\* is set, and leave the register as it was
C8_CompareFlags ==
    \A k \in {<<201, "A">>, <<224, "X">>, <<192, "Y">>} :
        (Executed /\ last.opcode = k[1]) =>
            LET R == last.pre[k[2]]
                M == last.data
            IN  /\ cpu.C <=> R >= M
                /\ cpu.Z <=> R = M
                /\ cpu.N <=> Bit((R - M) % 256, 7) = 1
                /\ cpu[k[2]] = R

\* C9: whatever was pushed last comes back first, SP is the starting SP less the
\* number of bytes still pushed (mod 256, so the starting SP once all are popped),
\* SP stays in 0..255 and every byte written is inside 0x0100-0x01FF
C9_StackRoundTrip ==
    /\ cpu.SP \in 0..255
    /\ cpu.SP = (stk.sp0 - Len(stk.pushed)) % 256
    /\ stk.op = "pop" => stk.got = stk.expect
    /\ Len(stk.pushed) = 0 => cpu.SP = stk.sp0
    /\ DOMAIN ram \subseteq StackPage

\* the whole page pushed from SP 0, wrapping, and popped again
C9_Witness ==
    /\ stk.limit = Cardinality(StackPage)
    /\ stk.sp0 = 0
    /\ stk.op = "pop" /\ Len(stk.pushed) = 0
    /\ stk.got = DeepByte(0)
    /\ cpu.SP = 0

\* the six flags a status byte restores
SixFlags(c) == <<c.C, c.Z, c.I, c.D, c.V, c.N>>

\* bits 0, 1, 2, 3, 6 and 7 of a byte
SixBits(b) == <<Bit(b, 0) = 1, Bit(b, 1) = 1, Bit(b, 2) = 1, Bit(b, 3) = 1, Bit(b, 6) = 1,
                Bit(b, 7) = 1>>

\* C10: the status byte has carry in bit 0, zero in 1, interrupt-disable in 2, decimal
\* in 3, break in 4, a 1 in bit 5, overflow in 6 and negative in 7; PLP and RTI set C,
\* Z, I, D, V and N from bits 0, 1, 2, 3, 6 and 7 of the byte they pull, and PLP right
\* after PHP leaves the six flags as they were
C10_StatusByte ==
    /\ status(cpu) \in 0..255
    /\ SixBits(status(cpu)) = SixFlags(cpu)
    /\ Bit(status(cpu), 4) = B2I(cpu.B) /\ Bit(status(cpu), 5) = 1
    /\ stk.op \in {"PHP", "NMI"} =>
          LET b == stk.pushed[Len(stk.pushed)]
          IN  SixBits(b) = SixFlags(stk.saved) /\ Bit(b, 4) = 1 /\ Bit(b, 5) = 1
    /\ stk.op \in {"PLP", "RTI"} => SixFlags(cpu) = SixBits(stk.got)
    /\ (stk.op = "PLP" /\ stk.prev = "PHP") => SixFlags(cpu) = SixFlags(stk.saved)

\* PHP and then PLP with overflow and negative set and carry clear
C10_Witness ==
    /\ stk.op = "PLP" /\ stk.prev = "PHP"
    /\ cpu.V /\ cpu.N /\ ~cpu.C /\ cpu.D
    /\ Bit(stk.got, 6) = 1 /\ Bit(stk.got, 0) = 0


\* C11: the status byte BRK, PHP and trigger_NMI push has bit 4 (break) set, and
\* the break flag is clear in every state between operations
C11_BreakBit ==
    /\ ~cpu.B
    /\ stk.op \in {"BRK", "PHP", "NMI"} =>
          Bit(Get(ram, 256 + ((cpu.SP + 1) % 256)), 4) = 1

\* BRK with the stack pointer wrapping below 0x00, the status byte on top
C11_Witness ==
    /\ stk.op = "BRK" /\ stk.saved.SP = 1 /\ cpu.SP = 254
    /\ Bit(Get(ram, 256 + 255), 4) = 1
    /\ ~cpu.B

\* C12: trigger_NMI pushes PC's high byte, then its low byte, then the status byte
\* (SP less 3 mod 256), sets interrupt-disable and loads PC from 0xFFFA/0xFFFB;
\* A, X, Y, the other flags and the cycle counter stay
C12_Interrupt ==
    stk.op = "NMI" =>
        LET p == stk.saved
            vector == NMI_VECTOR - 32768 - PRG_ROM_BASE_UNIT_SIZE
        IN  /\ Get(ram, 256 + p.SP) = (p.PC \div 256) % 256
            /\ Get(ram, 256 + ((p.SP - 1) % 256)) = p.PC % 256
            /\ Get(ram, 256 + ((p.SP - 2) % 256)) = status([p EXCEPT !.B = TRUE])
            /\ cpu.SP = (p.SP - 3) % 256
            /\ cpu.I
            /\ cpu.PC = Get(rom.prg_rom, vector) + 256 * Get(rom.prg_rom, vector + 1)
            /\ cpu = [p EXCEPT !.SP = cpu.SP, !.I = TRUE, !.PC = cpu.PC]

\* an interrupt taken inside the handler of a break, with interrupt-disable
\* clear before the break
C12_Witness ==
    /\ stk.op = "NMI" /\ stk.prev = "BRK"
    /\ stk.saved.PC = 32771 /\ cpu.PC = 32771
    /\ Len(stk.pushed) = 6 /\ Bit(stk.pushed[3], 2) = 0

\* C13: a step on an opcode bound to the placeholder handler raises nothing, changes
\* no register, flag or memory byte, adds the table's cycle cost and moves PC past
\* the opcode
C13_Placeholder ==
    (last.n > 0 /\ ~last.stalled /\ last.opcode \in 0..255 /\ Entry.method = "_noimpl") =>
        /\ err = "none"
        /\ ram = last.ram
        /\ \A f \in {"A", "X", "Y", "SP", "C", "Z", "I", "D", "B", "V", "N"} :
              cpu[f] = last.pre[f]
        /\ cpu.cpu_ticks = last.pre.cpu_ticks + Entry.ticks
        /\ cpu.PC > last.pre.PC

\* C14: after every step PC is a 16-bit and SP an 8-bit value
C14_RegisterWidths ==
    /\ cpu.PC \in 0..65535
    /\ cpu.SP \in 0..255

\* C15: a read or write at a in 0x0000-0x1FFF accesses RAM cell a mod 0x800, and at
\* b in 0x2000-0x3FFF it is the read or write of picture unit register
\* 0x2000 + (b mod 8)
C15_Mirroring ==
    LET b == last.before
        a == last.addr
        read == read_register(b, 8192 + (a % 8))
        write == write_register(b, 8192 + (a % 8), last.val)
    IN  /\ (last.op = "read" /\ a \in 0..8191) =>
              /\ err = "none" /\ last.ret = Get(b.ram, a % 2048)
              /\ ram = b.ram /\ ppu = b.ppu
        /\ (last.op = "write" /\ a \in 0..8191) =>
              /\ err = "none" /\ Get(ram, a % 2048) = last.val
              /\ \A i \in 0..2047 : i # a % 2048 => Get(ram, i) = Get(b.ram, i)
              /\ ppu = b.ppu
        /\ (last.op = "read" /\ a \in 8192..16383) =>
              /\ err = read.err /\ ppu = read.ppu /\ ram = b.ram
              /\ err = "none" => last.ret = read.ret
        /\ (last.op = "write" /\ a \in 8192..16383) =>
              /\ err = write.err /\ ppu = write.ppu /\ rom = write.rom /\ ram = b.ram

\* C16: a write of v to 0x4014 puts the bytes read at v * 0x100 + i into sprite
\* memory at i for i in 0..255, sets the stall counter to 512 and leaves every
\* other register of the picture unit and of the CPU as it was
C16_SpriteDMA ==
    (last.op = "write" /\ last.addr = 16404) =>
        /\ err = "none"
        /\ \A i \in 0..255 :
              Get(ppu.spr, i) = _read_memory(last.before, last.val * 256 + i, "ABSOLUTE").ret
        /\ cpu = [last.before.cpu EXCEPT !.stall = 512]
        /\ ppu = [last.before.ppu EXCEPT !.spr = ppu.spr]

\* C20: a read of register 0x2002 returns the status byte as it was, clears bit 7
\* of the stored status and nothing else, and resets the address latch, so the next
\* write to 0x2006 sets the high byte of the address
C20_StatusRead ==
    LET b == last.before
        Register(a, k) == a \in 8192..16383 /\ a % 8 = k
    IN  /\ (last.op = "read" /\ Register(last.addr, 2)) =>
              /\ err = "none"
              /\ last.ret = b.ppu.status
              /\ ppu = [b.ppu EXCEPT !.status = @ % 128, !.addr_write_latch = FALSE]
        /\ (last.op = "write" /\ Register(last.addr, 6)
                /\ last.prev = "read" /\ Register(last.prev_addr, 2)) =>
              /\ ppu.addr = 256 * last.val + (b.ppu.addr % 256)
              /\ ppu.addr_write_latch

\* one byte written to 0x2006, then the status 0x9F read through the mirror at
\* 0x3FFA, then 0x21 written to 0x2006: the address is 0x2100
C20_Witness ==
    /\ last.op = "write" /\ last.addr = 8198 /\ last.val = 33
    /\ last.prev = "read" /\ last.prev_addr = 16378
    /\ last.before.ppu.status = 31 /\ last.before.ppu.addr = 16128
    /\ ppu.addr = 8448 /\ ppu.addr_write_latch

\* C17: a step taken while the stall counter is positive takes one off it, adds
\* one to cpu_ticks and changes nothing else, no opcode being fetched; after a
\* sprite DMA exactly 512 such steps are taken before the next instruction
C17_Stall ==
    /\ last.stalled =>
          /\ err = "none"
          /\ last.opcode = -1
          /\ cpu = [stk.saved.cpu EXCEPT !.stall = @ - 1, !.cpu_ticks = @ + 1]
          /\ ram = stk.saved.ram /\ ppu = stk.saved.ppu /\ rom = stk.saved.rom
          /\ joypad1 = stk.saved.joypad1
    /\ (last.n = 1 /\ last.wr.addr = 16404) => cpu.stall = 512
    /\ last.n > 1 => (last.stalled <=> last.n <= 1 + 512)

\* the instruction after the idle steps: BRK, the 514th step
C17_Witness ==
    /\ last.n = 514 /\ ~last.stalled /\ last.opcode = 0
    /\ last.pre.stall = 0 /\ last.pre.cpu_ticks = 4 + 512
    /\ cpu.PC = 32771

\* C18: cycle stays in 0..340 and scanline in 0..261, and every call of PPU.step
\* moves the pair on by one cycle, cycle 340 wrapping to 0 of the next scanline and
\* scanline 261 to 0, so the pair repeats every 341 * 262 calls
C18_FrameCounters ==
    /\ ppu.cycle \in 0..340
    /\ ppu.scanline \in 0..261
    /\ last.n > 0 =>
          (ppu.scanline * 341) + ppu.cycle =
              ((last.before.scanline * 341) + last.before.cycle + 1) % (341 * 262)

\* C19: the call of PPU.step at scanline 261, cycle 1 leaves bits 7, 6 and 5 of
\* the status clear
C19_VblankEnd ==
    (last.n > 0 /\ last.before.scanline = 261 /\ last.before.cycle = 1) =>
        /\ Bit(ppu.status, 7) = 0
        /\ Bit(ppu.status, 6) = 0
        /\ Bit(ppu.status, 5) = 0

---------------------------------------------------------------------------
(* PPU registers *)

\* the last call was write_register(0x2006, v) and returned
AddressWrite ==
    last.op = "write" /\ last.addr = 8198 /\ err = "none"

\* C21: the latch is set exactly after an odd number of writes to 0x2006 since the
\* last read of the status register (it toggles on each such write and no other
\* register write changes it); an odd-numbered write sets the high byte of the
\* address and keeps the low byte, an even-numbered one sets the low byte and keeps
\* the high byte, so two consecutive writes h then l from a reset latch leave the
\* address at (h << 8) | l
C21_AddressLatch ==
    /\ ppu.addr_write_latch <=> (last.writes % 2 = 1)
    /\ (AddressWrite /\ last.writes % 2 = 1) =>
           /\ ppu.addr \div 256 = last.val
           /\ ppu.addr % 256 = last.before.ppu.addr % 256
    /\ (AddressWrite /\ last.writes % 2 = 0) =>
           /\ ppu.addr % 256 = last.val
           /\ ppu.addr \div 256 = (last.before.ppu.addr \div 256) % 256
    /\ (AddressWrite /\ last.writes % 2 = 0 /\ last.prev = "write"
            /\ last.prev_addr = 8198) =>
           ppu.addr = (last.prev_val * 256) + last.val

\* h = 0x3F then l = 0xFF written from a reset latch, after a write elsewhere
C21_Witness ==
    /\ AddressWrite /\ last.n = 3 /\ last.writes = 2
    /\ last.prev = "write" /\ last.prev_addr = 8198
    /\ last.prev_val = 63 /\ last.val = 255
    /\ ppu.addr = 16383 /\ ~ppu.addr_write_latch

\* the last call was read_register(0x2007) and returned
DataRead ==
    last.op = "read" /\ last.addr = 8199 /\ err = "none"

\* C22: a read of 0x2007 with the address (mod 0x4000) below 0x3F00 returns what the
\* buffer held and puts the byte at the address in the buffer; with the address in
\* the palette it returns the palette byte and puts the byte at (address - 0x1000)
\* in the buffer; either way the address then grows by the increment, 1 or 32
C22_BufferedRead ==
    DataRead =>
        LET old == last.before
            A == old.ppu.addr
        IN  /\ A % 16384 < 16128 =>
                  /\ last.ret = old.ppu.buffer2007
                  /\ ppu.buffer2007 = ppu_read_memory(old, A).ret
            /\ A % 16384 >= 16128 =>
                  /\ last.ret = Get(old.ppu.palette, palette_index(A % 16384))
                  /\ ppu.buffer2007 = ppu_read_memory(old, A - 4096).ret
            /\ old.ppu.addr_increment \in {1, 32}
            /\ ppu.addr = A + old.ppu.addr_increment

\* a nametable byte comes back on the second read of 0x2007, the address having
\* moved on by 32
C22_Witness ==
    /\ DataRead /\ last.prev = "read" /\ last.prev_addr = 8199
    /\ last.before.ppu.addr = 8960 + 32 /\ ppu.addr = 8960 + 64
    /\ last.ret = (768 % 251) + 1
    /\ ppu.buffer2007 = (800 % 251) + 1

\* C23: whatever registers are read and written, the address register stays in
\* 0..0xFFFF and the sprite address in 0..0xFF, and no access through 0x2004 falls
\* outside the sprite memory
C23_AddressWidths ==
    /\ ppu.addr \in 0 .. 65535
    /\ ppu.spr_addr \in 0 .. 255
    /\ last.addr = 8196 => err # "IndexError"

---------------------------------------------------------------------------
(* PPU memory *)

\* a is a nametable address: 0x2000..0x3EFF, or a mirror of it above 0x4000
InNametables(a) == a % 16384 \in 8192 .. 16127

\* a is a palette address: 0x3F00..0x3FFF, or a mirror of it above 0x4000
InPalette(a) == a % 16384 \in 16128 .. 16383

\* the offset of a nametable address in 0x2000..0x2FFF, 0x3000..0x3EFF aliasing it
NametableOffset(a) == ((a % 16384) - 8192) % 4096

\* a and b name the same nametable byte: with vertical mirroring they differ by a
\* multiple of 0x800; with horizontal mirroring they have the same offset k in their
\* 0x400 blocks and both lie in 0x2000/0x2400 or both in 0x2800/0x2C00
SameNametableByte(a, b) ==
    IF rom.vertical_mirroring
    THEN NametableOffset(a) % 2048 = NametableOffset(b) % 2048
    ELSE /\ NametableOffset(a) % 1024 = NametableOffset(b) % 1024
         /\ NametableOffset(a) \div 2048 = NametableOffset(b) \div 2048

\* nametable addresses at the ends and inside of every 0x400 block
NametableProbes ==
    {b + k : b \in {8192, 9216, 10240, 11264, 12288, 13312, 14336},
             k \in {0, 1, 767, 1023}} \cup {15360, 15361, 16127}

\* the byte a read at a returns when the picture unit is p
ByteAt(p, a) == ppu_read_memory([Machine EXCEPT !.ppu = p], a).ret

\* C24: nametable accesses fold into the 2KB memory; after a write of v at a every
\* alias of a (0x3000-0x3EFF over 0x2000-0x2EFF, a + 0x800 when vertical, the
\* 0x2000/0x2400 and 0x2800/0x2C00 pairs when horizontal) reads v, and every address
\* that is no alias reads what it read before; a read that follows the write
\* through an alias returns v
C24_NametableMirroring ==
    /\ InNametables(last.addr) =>
          /\ err = "none"
          /\ nametable_index(Machine, last.addr % 16384) \in 0 .. NAMETABLE_SIZE - 1
          /\ DOMAIN ppu.nametables \subseteq 0 .. NAMETABLE_SIZE - 1
    /\ (last.op = "write" /\ InNametables(last.addr)) =>
          \A b \in NametableProbes :
              ByteAt(ppu, b) = IF SameNametableByte(last.addr, b) THEN last.val
                               ELSE ByteAt(last.before, b)
    /\ (last.op = "read" /\ InNametables(last.addr) /\ last.prev = "write"
            /\ InNametables(last.prev_addr)
            /\ SameNametableByte(last.prev_addr, last.addr)) =>
          last.ret = last.prev_val

\* horizontal mirroring: 0xA5 written at 0x2C00 + 0x3FF comes back at 0x3800 + 0x3FF
C24_Witness ==
    /\ ~rom.vertical_mirroring /\ err = "none"
    /\ last.op = "read" /\ last.addr = 14336 + 1023
    /\ last.prev = "write" /\ last.prev_addr = 11264 + 1023 /\ last.prev_val = 165
    /\ last.ret = 165

\* the palette cell of a palette address
PaletteCell(a) ==
    LET i == ((a % 16384) - 16128) % 32
    IN  IF i \in {16, 20, 24, 28} THEN i - 16 ELSE i

\* C25: a palette write of v at a stores v in cell (a - 0x3F00) mod 0x20, cells
\* 0x10, 0x14, 0x18, 0x1C standing for 0x00, 0x04, 0x08, 0x0C, and changes no other
\* cell; a read returns the byte of the address's cell, so a read through any
\* alias of a written address returns the written byte
C25_PaletteMirroring ==
    /\ InPalette(last.addr) => err = "none"
    /\ (last.op = "write" /\ InPalette(last.addr)) =>
          /\ Get(ppu.palette, PaletteCell(last.addr)) = last.val
          /\ \A i \in (0 .. PALETTE_SIZE - 1) \ {PaletteCell(last.addr)} :
                 Get(ppu.palette, i) = Get(last.before.palette, i)
          /\ DOMAIN ppu.palette \subseteq 0 .. PALETTE_SIZE - 1
    /\ (last.op = "read" /\ InPalette(last.addr)) =>
          last.ret = Get(last.before.palette, PaletteCell(last.addr))
    /\ (last.op = "read" /\ InPalette(last.addr) /\ last.prev = "write"
            /\ InPalette(last.prev_addr)
            /\ PaletteCell(last.prev_addr) = PaletteCell(last.addr)) =>
          last.ret = last.prev_val

\* 0x21 written at 0x3F10 comes back at 0x3F20, the mirror of 0x3F00
C25_Witness ==
    /\ err = "none"
    /\ last.op = "read" /\ last.addr = 16128 + 32
    /\ last.prev = "write" /\ last.prev_addr = 16128 + 16 /\ last.prev_val = 33
    /\ last.ret = 33 /\ Get(ppu.palette, 0) = 33 /\ Get(ppu.palette, 16) = 0

---------------------------------------------------------------------------
(* Cartridge *)

\* C26: constructing a cartridge from an image whose signature is not 0x4E45531A
\* or whose mapper id is not 0 raises an error, so no cartridge results from it
C26_RejectsBadImage ==
    (last.signature # ROM_SIGNATURE \/ last.mapper # 0) => err # "none"

\* the last call was read_cartridge(a), a in one of the three mapped ranges
MappedRead ==
    /\ last.op = "read"
    /\ last.addr < 8192 \/ last.addr >= 24576

\* C27: read(a) returns graphics-ROM byte a for a < 0x2000, RAM byte a mod 0x2000
\* for 0x6000 <= a < 0x8000, and for a >= 0x8000 program-ROM byte (a - 0x8000) mod
\* 0x4000 of a one-bank image (read(a) = read(a + 0x4000) there) and byte a - 0x8000
\* otherwise; it changes nothing in the cartridge, and repeated it returns the same
C27_CartridgeRead ==
    /\ MappedRead =>
          /\ err = "none"
          /\ rom = last.before
          /\ last.addr < 8192 => last.ret = Get(rom.chr_rom, last.addr)
          /\ (24576 <= last.addr /\ last.addr < 32768) =>
                 last.ret = Get(rom.prg_ram, last.addr % 8192)
          /\ (last.addr >= 32768 /\ rom.prg_rom_size = 1) =>
                 last.ret = Get(rom.prg_rom, (last.addr - 32768) % 16384)
          /\ (last.addr >= 32768 /\ rom.prg_rom_size # 1) =>
                 last.ret = Get(rom.prg_rom, last.addr - 32768)
    /\ (MappedRead /\ last.prev = "read" /\ last.prev_addr = last.addr) =>
          last.ret = last.prev_ret
    /\ (MappedRead /\ last.prev = "read" /\ rom.prg_rom_size = 1
            /\ last.addr \in 32768 .. 49151
            /\ last.prev_addr = last.addr + 16384) =>
          last.ret = last.prev_ret

\* a one-bank image with a trainer: the last byte of the program ROM, offset
\* 512 + 16383 of the file's body, read at 0xFFFF and then at 0xBFFF
C27_Witness ==
    /\ last.has_trainer /\ rom.prg_rom_size = 1 /\ err = "none"
    /\ last.op = "read" /\ last.addr = 49151
    /\ last.prev = "read" /\ last.prev_addr = 65535
    /\ last.ret = (16895 % 251) + 1 /\ last.prev_ret = last.ret

\* C28: write(a, v) stores v in the RAM at a mod 0x2000 when 0x6000 <= a < 0x8000;
\* at any other address it raises an error and leaves program ROM, graphics ROM
\* and RAM as they were
C28_CartridgeWrite ==
    last.op = "write" =>
        IF 24576 <= last.addr /\ last.addr < 32768
        THEN /\ err = "none"
             /\ rom = [last.before EXCEPT
                          !.prg_ram = Put(@, last.addr % 8192, last.val)]
             /\ Get(rom.prg_ram, last.addr % 8192) = last.val
        ELSE /\ err = "ValueError"
             /\ rom = last.before

\* 0xA5 stored at 0x7FFF, then a write at 0x8000 refused with the RAM kept
C28_Witness ==
    /\ last.op = "write" /\ last.addr = 32768 /\ err = "ValueError"
    /\ last.prev = "write" /\ last.prev_addr = 32767
    /\ Get(rom.prg_ram, 8191) = 165

---------------------------------------------------------------------------
(* Driver loop *)

\* the picture unit's coordinate as a number of steps into the frame
FramePosition == (ppu.scanline * 341) + ppu.cycle

\* C29: after every completed turn of the driver loop the picture unit has made
\* three steps for each tick the processor has counted, idle ticks of a DMA
\* included: in the turn it made three for each tick of the instruction just
\* executed, so that it is never further behind than that and never ahead
C29_ThreePerTick ==
    err = "none" =>
        /\ last.steps = 3 * cpu.cpu_ticks
        /\ stk.ticks = cpu.cpu_ticks
        /\ FramePosition = (3 * cpu.cpu_ticks) % (341 * 262)
        /\ last.n > 0 =>
              /\ last.new_ticks = cpu.cpu_ticks - (last.steps - last.turn_steps) \div 3
              /\ last.turn_steps = 3 * last.new_ticks
              /\ last.stepped.cpu_ticks = cpu.cpu_ticks

\* an idle tick of the DMA: one tick, three steps
C29_Witness ==
    /\ err = "none" /\ last.n > 6 /\ cpu.stall > 0 /\ cpu.stall < 512
    /\ last.new_ticks = 1 /\ last.turn_steps = 3
    /\ last.steps = 3 * cpu.cpu_ticks

\* C30: in every turn the driver calls trigger_NMI once for each picture unit step
\* made at scanline 241, cycle 1 with generate_nmi set and at no other step: the
\* vblank bit is set when it calls, the processor is as its last instruction left
\* it and enters the handler with the bit still set, and two calls are at least
\* 341 * 262 picture unit steps apart
C30_VblankNMI ==
    /\ Len(last.nmis) <= 1
    /\ Len(last.nmis) = Cardinality({i \in DOMAIN last.vblanks :
                                        last.vblanks[i].enabled})
    /\ \A i \in DOMAIN last.nmis :
          LET nmi == last.nmis[i]
          IN  /\ nmi.from = <<241, 1>>
              /\ nmi.enabled
              /\ Bit(nmi.status, 7) = 1
              /\ nmi.cpu = last.stepped
              /\ \E j \in DOMAIN last.vblanks : last.vblanks[j].step = nmi.step
              /\ err = "none" =>
                    /\ cpu.PC = 32800
                    /\ cpu.I
                    /\ cpu.SP = (last.stepped.SP - 3) % 256
                    /\ Bit(ppu.status, 7) = 1
    /\ (last.nmi_at # -1 /\ last.nmi_before # -1) =>
          last.nmi_at - last.nmi_before >= 341 * 262

\* the second interrupt of a run, one frame after the first, sprites being drawn
C30_Witness ==
    /\ err = "none" /\ Len(last.nmis) = 1 /\ ppu.show_sprites
    /\ last.nmi_before = (241 * 341) + 2
    /\ last.nmi_at = last.nmi_before + (341 * 262)
    /\ cpu.PC = 32800 /\ Bit(ppu.status, 7) = 1

\* the A, X, Y, P, SP field of a trace line for the registers c
RegisterField(c) ==
    <<"A", ":">> \o Hex(c.A, 2) \o <<" ", "X", ":">> \o Hex(c.X, 2)
        \o <<" ", "Y", ":">> \o Hex(c.Y, 2) \o <<" ", "P", ":">> \o Hex(status(c), 2)
        \o <<" ", "S", "P", ":">> \o Hex(c.SP, 2)

\* C31: the log line produced before the step of a documented instruction holds the
\* program counter in columns 0-3 and the opcode in columns 6-7, as the reference
\* trace does, and the A, X, Y, P, SP field in columns 48-72
C31_TraceFields ==
    (/\ last.n > 0 /\ stk.logged /\ last.opcode \in 0..255 /\ last.pre.PC >= 32768
     /\ instructions[last.opcode + 1].method # "_noimpl") =>
        /\ Len(stk.line) >= 73
        /\ SubSeq(stk.line, 1, 4) = Hex(last.pre.PC, 4)
        /\ SubSeq(stk.line, 7, 8) = Hex(last.opcode, 2)
        /\ SubSeq(stk.line, 49, 73) = RegisterField(last.pre)

\* the number of "[" less the number of "]" among the first k characters of src
RECURSIVE Depth(_, _)
Depth(src, k) ==
    IF k = 0 THEN 0
    ELSE Depth(src, k - 1) + (IF src[k] = "[" THEN 1 ELSE IF src[k] = "]" THEN -1 ELSE 0)

\* every "]" closes a "[" before it and every "[" is closed
Balanced(src) == Depth(src, Len(src)) = 0 /\ \A k \in 0..Len(src) : Depth(src, k) >= 0

\* the bracket at position p (from 0) has no partner: no "]" after a "[", or "[" before
\* a "]", with balanced text between them
Unmatched(src, p) ==
    LET between(a, b) == SubSeq(src, a + 2, b)
    IN  IF src[p + 1] = "["
        THEN ~\E q \in (p + 1)..(Len(src) - 1) : src[q + 1] = "]" /\ Balanced(between(p, q))
        ELSE ~\E q \in 0..(p - 1) : src[q + 1] = "[" /\ Balanced(between(q, p))

TargetLine(b, statement) ==
    LET e == statement.line_expr
    IN  IF e.type = "NumericLiteral" THEN e.number
        ELSE IF e.type = "VarRetrieve" /\ e.name \in DOMAIN b.variable_table
        THEN b.variable_table[e.name]
        ELSE -1

\* no statement of the program has the line id
NoSuchLine(b, line_id) == \A i \in DOMAIN b.statements : b.statements[i].line_id # line_id

\* C33: the subroutine stack holds, oldest first, the index after each GOSUB not yet
\* returned from: a GOSUB pushes the index of the statement after it and goes to its
\* line, a RETURN pops the index pushed last and resumes after the most recent
\* unreturned GOSUB; a RETURN with the stack empty and a GOTO or GOSUB to a line id
\* no statement has raise InterpreterError and leave the statement index and the
\* stack as they were
C33_SubroutineStack ==
    LET b == last.before
        a == interpreter
        s == last.statement
        unchanged == /\ a.err = "InterpreterError"
                     /\ a.statement_idx = b.statement_idx
                     /\ a.subroutine_stack = b.subroutine_stack
    IN  /\ a.subroutine_stack = [i \in DOMAIN last.calls |-> last.calls[i] + 1]
        /\ last.n > 0 =>
              /\ (s.type = "GoSubStmt" /\ a.err = "none") =>
                    /\ a.subroutine_stack
                           = Append(b.subroutine_stack, b.statement_idx + 1)
                    /\ TargetLine(b, s) # -1 =>
                          a.statements[a.statement_idx + 1].line_id = TargetLine(b, s)
              /\ (s.type = "ReturnStmt" /\ b.subroutine_stack # <<>>) =>
                    /\ a.err = "none"
                    /\ a.statement_idx = b.subroutine_stack[Len(b.subroutine_stack)]
                    /\ a.statement_idx = last.returned + 1
                    /\ a.subroutine_stack
                           = SubSeq(b.subroutine_stack, 1, Len(b.subroutine_stack) - 1)
              /\ (s.type = "ReturnStmt" /\ b.subroutine_stack = <<>>) => unchanged
              /\ (/\ s.type \in {"GoToStmt", "GoSubStmt"}
                  /\ TargetLine(b, s) # -1
                  /\ NoSuchLine(b, TargetLine(b, s))) => unchanged

\* the second of two nested subroutines returns to the first
C33_Witness ==
    /\ last.n > 0 /\ last.statement.type = "ReturnStmt"
    /\ last.before.subroutine_stack = <<1, 2>>
    /\ interpreter.statement_idx = 2 /\ interpreter.subroutine_stack = <<1>>
    /\ interpreter.err = "none"

\* C34: the background composition a step makes at scanline 240, cycle 256 with the
\* background shown writes the cells (8x + fx, 8y + fy) of the 256 x 240 buffer and
\* none outside it, so that it ends without an index error
C34_BackgroundInBuffer ==
    (/\ last.n > 0
     /\ last.before.scanline = 240 /\ last.before.cycle = 256
     /\ last.before.show_background) => err # "IndexError"

\* the byte the composition of a frame reads at a when the picture unit is p
FrameByte(p, a) == ppu_read_memory([Machine EXCEPT !.ppu = p, !.err = "none"], a).ret

\* sprite 0 of the picture unit p has a non-transparent pixel at screen position
\* (x, y): one of its 8 x 8 pixels on the screen, a bit set there in either plane
SpriteZeroOpaque(p, x, y) ==
    LET y_pos == Get(p.spr, 0)
        x_pos == Get(p.spr, 3)
        attr == Get(p.spr, 2)
        line == IF Bit(attr, 7) = 1 THEN 7 - (y - y_pos) ELSE y - y_pos
        bit == IF Bit(attr, 6) = 1 THEN x - x_pos ELSE 7 - (x - x_pos)
        plane == p.spr_pattern_table_addr + (Get(p.spr, 1) * 16) + line
    IN  /\ y_pos # 255
        /\ x \in x_pos..(x_pos + 7) /\ y \in y_pos..(y_pos + 7)
        /\ x < NES_WIDTH /\ y < NES_HEIGHT
        /\ Bit(FrameByte(p, plane), bit) = 1 \/ Bit(FrameByte(p, plane + 8), bit) = 1

\* the background pixel of the picture unit p at screen position (x, y) is not
\* transparent: a bit set in either plane of the tile the nametable names there
BackgroundOpaque(p, x, y) ==
    LET entry == FrameByte(p, p.nametable_addr + ((y \div 8) * 32) + (x \div 8))
        plane == p.bg_pattern_table_addr + (entry * 16) + (y % 8)
    IN  Bit(FrameByte(p, plane), 7 - (x % 8)) = 1
            \/ Bit(FrameByte(p, plane + 8), 7 - (x % 8)) = 1

C40_ColourInTable == last.n > 0 => err # "IndexError"

\* the button of joypad 1 that the i-th read after a restart is to report
Button(i) ==
    CASE i = 1 -> joypad1.a
      [] i = 2 -> joypad1.b
      [] i = 3 -> joypad1.select
      [] i = 4 -> joypad1.start
      [] i = 5 -> joypad1.up
      [] i = 6 -> joypad1.down
      [] i = 7 -> joypad1.left
      [] i = 8 -> joypad1.right
      [] OTHER -> TRUE

\* C36: after the strobe bit is written 1 and then 0 at 0x4016, the reads of 0x4016
\* report in bit 0 the buttons A, B, Select, Start, Up, Down, Left, Right in that
\* order, one a read, and 1 after the eighth; while the strobe bit is 1 every read
\* reports button A and the sequence does not advance
C36_JoypadSequence ==
    last.op = "read" =>
        IF last.strobe
        THEN /\ Bit(last.ret, 0) = B2I(joypad1.a)
             /\ joypad1.read_count = last.read_count
        ELSE last.restarted => (Bit(last.ret, 0) = B2I(Button(last.k)))

\* the effective address of the instruction the last step ran, resolved in the
\* state the step started from
Resolved ==
    _address_for_mode([Machine EXCEPT !.cpu = last.pre, !.ram = last.ram, !.err = "none"],
                      last.data, Entry.mode)

\* C37: resolving the effective address succeeds for every addressing mode, every
\* operand and every register value: no pointer byte is fetched outside the RAM
\* array and the address is within 0..0xFFFF
C37_AddressResolves ==
    (/\ last.n > 0 /\ ~last.stalled /\ last.opcode \in 0..255
     /\ Entry.method # "_noimpl") =>
        /\ Ok(Resolved)
        /\ Resolved.ret \in 0..65535

\* C38: JSR at P pushes P + 2, high byte first; an RTS that finds the stack as the
\* JSR left it, pushes and pops between them balanced, resumes at P + 3 with SP as
\* it was before the JSR
C38_CallReturn ==
    /\ last.n > 0 =>
           /\ Len(last.frame) > 1
           /\ last.frame[Len(last.frame) - 1] = (last.P + 2) \div 256
           /\ last.frame[Len(last.frame)] = (last.P + 2) % 256
    /\ (last.n = 2 /\ stk.op = "RTS" /\ last.balanced) =>
           /\ cpu.PC = last.P + 3
           /\ cpu.SP = last.SP

C38_Witness ==
    /\ last.n = 2 /\ stk.op = "RTS" /\ last.balanced /\ last.between > 1
    /\ last.P = 32771 /\ last.SP = 254
    /\ cpu.PC = last.P + 3

\* C39: the mapper id derived from a header is (byte 7 & 0xF0) | (byte 6 >> 4),
\* whatever the mirroring bit (bit 0) and the trainer bit (bit 2) of byte 6 are
C39_MapperId ==
    Len(last.rom_file.header) = 16 =>
        last.mapper = BitOr(BitAnd(last.rom_file.header[8], 240),
                            last.rom_file.header[7] \div 16)
====
